---- MODULE Spec2Model ----
(***************************************************************************)
(* DiffPatch: self-applying directory patches.                             *)
(*                                                                         *)
(* The module models the patch lifecycle of src/src/diff.rs and            *)
(* src/src/patch.rs: line diffing and diff application, the envelope       *)
(* (trailer) codec, directory scanning and classification, patch creation  *)
(* and patch application.                                                  *)
(*                                                                         *)
(* The specifications share the variables:                                 *)
(*   DiffSpec     one text pair through calculate_file_diff and the        *)
(*                applier's per-file diff loop;                            *)
(*   EnvelopeSpec one executable image through append_data_to_exe and      *)
(*                extract_patch_data_from_exe;                             *)
(*   Spec         two directory trees through compare_directories,         *)
(*                create_patch and apply_patch;                            *)
(*   ScanSpec     trees with hidden and excluded paths through             *)
(*                compare_directories;                                     *)
(*   ApplierSpec  apply_patch on any manifest and archive, the artifact    *)
(*                inside or outside the directory (ApplierFairSpec: with   *)
(*                every enabled step taken);                               *)
(*   ConfinementSpec apply_patch on manifests and archives that name       *)
(*                paths outside the directory;                             *)
(*   ZipSpec      create_zip_archive with its worker threads;              *)
(*   OpsSpec      the diff loop of apply_patch on any list of changes.     *)
(***************************************************************************)
EXTENDS Integers, Sequences, FiniteSets, TLC

VARIABLES
    \* ---- DiffSpec: one file through the differ and the diff applier
    source_content,     \* content of the source file
    target_content,     \* content of the target file
    changes,            \* FileDiff.changes produced by calculate_file_diff
    sorted_changes,     \* the applier's sorted copy, ops still to apply
    lines,              \* the applier's line vector
    new_content,        \* content written back by the applier
    dpc,                \* position in the differ/applier code
    \* ---- EnvelopeSpec: one executable image through the envelope codec
    current_exe_image,  \* bytes of the running generator executable
    exe_image,          \* bytes of the file at the output path
    patch_data_file,    \* bytes of patch_data.json
    zip_file,           \* bytes of patch_content.zip
    extracted,          \* what extract_patch_data_from_exe did and returned
    epc,                \* position in the codec code
    \* ---- Spec: the generator and the applier on directory trees
    source_dir,         \* the source tree: file path -> content
    target_dir,         \* the target tree: file path -> content
    args,               \* arguments of the create command
    diffs,              \* the Change list returned by compare_directories
    gpc,                \* position in the generator (main, create command)
    live,               \* current_dir of the applier: files and directories
    run_image,          \* the executable image the applier runs from
    exe_path,           \* where that executable is under current_dir, <<>> if elsewhere
    mode,               \* what main decided the started process is
    cli,                \* the command line of the started process
    confirmed,          \* the user's answer to apply_patch's prompt
    patch_data,         \* the manifest the applier decoded
    content_bytes,      \* the archive bytes the applier decoded
    extract_dir,        \* the staging directory: file path -> content
    pending,            \* work left in the current stage of the applier
    error,              \* the error apply_patch returned, "" if none
    pc,                 \* stage of apply_patch
    \* ---- ZipSpec: the workers of create_zip_archive
    zip                 \* files, workers, locks, collector and archive

diffVars == <<source_content, target_content, changes, sorted_changes, lines,
              new_content, dpc>>

envVars == <<current_exe_image, exe_image, patch_data_file, zip_file, extracted, epc>>

patchVars == <<source_dir, target_dir, args, diffs, gpc, live, run_image, exe_path, mode,
               cli, confirmed, patch_data, content_bytes, extract_dir, pending, error, pc>>

zipVars == <<zip>>

vars == <<diffVars, envVars, patchVars, zipVars>>

----------------------------------------------------------------------------
(* Bounds *)

\* longest body (in lines) of a generated text
MaxLines == 2
\* length of the optional run of identical leading lines of a generated text
PadLen == 4

----------------------------------------------------------------------------
(* Sequences *)

Min(a, b) == IF a < b THEN a ELSE b

Last(s) == s[Len(s)]

Front(s) == SubSeq(s, 1, Len(s) - 1)

\* s[from..to) with zero-based, half-open bounds, as Rust slices and ranges
Slice(s, from, to) == SubSeq(s, from + 1, to)

\* Vec::drain(start..end): the vector without the elements start..end
Drain(s, start, end) == SubSeq(s, 1, start) \o SubSeq(s, end + 1, Len(s))

\* Vec::insert(at, x)
InsertAt(s, at, x) == SubSeq(s, 1, at) \o <<x>> \o SubSeq(s, at + 1, Len(s))

SeqsUpTo(S, n) == UNION {[1..k -> S] : k \in 0..n}

RECURSIVE Repeat(_, _)
Repeat(x, n) == IF n = 0 THEN <<>> ELSE <<x>> \o Repeat(x, n - 1)

----------------------------------------------------------------------------
(* File contents and strings                                               *)
(*                                                                         *)
(* A text is its sequence of lines (terminators stripped) and whether the  *)
(* last line is terminated by "\n". A text without a final terminator      *)
(* cannot end in an empty line, so the pair determines the bytes.          *)
(* A file that is not valid UTF-8 carries utf8 = FALSE.                    *)

LineSet == {"", "a", "b"}

PadLine == "c"

Text(ls, eol) == [utf8 |-> TRUE, lines |-> ls, eol |-> eol]

Binary(id) == [utf8 |-> FALSE, lines |-> <<id>>, eol |-> FALSE]

IsText(c) ==
    /\ c.utf8
    /\ (~c.eol => (c.lines = <<>> \/ Last(c.lines) # ""))
    /\ (c.lines = <<>> => ~c.eol)

\* str::lines(): the lines of a string, terminators stripped
StrLines(c) == c.lines

\* [&str]::join("\n"): the string made of the lines with "\n" between them.
\* A final empty element leaves the string ending in "\n".
Join(ls) ==
    IF ls = <<>> THEN Text(<<>>, FALSE)
    ELSE IF Last(ls) # "" THEN Text(ls, FALSE)
    ELSE IF Len(ls) = 1 THEN Text(<<>>, FALSE)
    ELSE Text(Front(ls), TRUE)

\* File::read_to_string succeeds only on valid UTF-8
ReadToString(c) == IF c.utf8 THEN [ok |-> TRUE, s |-> c] ELSE [ok |-> FALSE, s |-> c]

\* SHA-256 of a file, used as a fingerprint for equality only: taken to be
\* collision free, so the digest identifies the content.
calculate_file_hash(c) == <<"sha256", c>>

----------------------------------------------------------------------------
(* The differ: calculate_file_diff (diff.rs)                               *)

\* group radius passed to grouped_ops
ContextRadius == 3

\* TextDiff::from_lines compares lines together with their terminators
Tokens(c) == [i \in 1..Len(c.lines) |-> <<c.lines[i], (i < Len(c.lines)) \/ c.eol>>]

\* Edit scripts in line units from position (i, j) of (x, y) with at most
\* budget deletions and insertions: "E" keeps a common line, "D" drops a line
\* of x, "I" adds a line of y. Inside a run of changes deletions come first.
RECURSIVE ScriptsFrom(_, _, _, _, _, _)
ScriptsFrom(x, y, i, j, budget, afterInsert) ==
    IF i = Len(x) /\ j = Len(y) THEN {<<>>}
    ELSE
      LET eq  == IF i < Len(x) /\ j < Len(y) /\ x[i + 1] = y[j + 1]
                 THEN {<<"E">> \o r : r \in ScriptsFrom(x, y, i + 1, j + 1, budget, FALSE)}
                 ELSE {}
          del == IF i < Len(x) /\ budget > 0 /\ ~afterInsert
                 THEN {<<"D">> \o r : r \in ScriptsFrom(x, y, i + 1, j, budget - 1, FALSE)}
                 ELSE {}
          ins == IF j < Len(y) /\ budget > 0
                 THEN {<<"I">> \o r : r \in ScriptsFrom(x, y, i, j + 1, budget - 1, TRUE)}
                 ELSE {}
      IN  eq \cup del \cup ins

\* the length of a shortest edit script
RECURSIVE EditDistanceFrom(_, _, _)
EditDistanceFrom(x, y, d) ==
    IF ScriptsFrom(x, y, 0, 0, d, FALSE) # {} THEN d ELSE EditDistanceFrom(x, y, d + 1)

\* The Myers diff returns a shortest edit script; which one of several it
\* returns is left open.
ShortestScripts(x, y) == ScriptsFrom(x, y, 0, 0, EditDistanceFrom(x, y, 0), FALSE)

\* number of leading elements of script[k..] that satisfy the test
RECURSIVE EqualRun(_, _)
EqualRun(script, k) ==
    IF k > Len(script) \/ script[k] # "E" THEN 0 ELSE 1 + EqualRun(script, k + 1)

RECURSIVE ChangeRun(_, _)
ChangeRun(script, k) ==
    IF k > Len(script) \/ script[k] = "E" THEN 0 ELSE 1 + ChangeRun(script, k + 1)

CountOf(script, from, n, what) == Cardinality({k \in from..(from + n - 1) : script[k] = what})

DiffOp(tag, old_index, old_len, new_index, new_len) ==
    [tag |-> tag, old_index |-> old_index, old_len |-> old_len,
     new_index |-> new_index, new_len |-> new_len]

\* The ops captured from a script: each run of common lines is one Equal op,
\* each run of changes one Delete, Insert or Replace op.
RECURSIVE ScriptOps(_, _, _, _)
ScriptOps(script, k, oi, ni) ==
    IF k > Len(script) THEN <<>>
    ELSE IF script[k] = "E"
    THEN LET n == EqualRun(script, k)
         IN  <<DiffOp("Equal", oi, n, ni, n)>> \o ScriptOps(script, k + n, oi + n, ni + n)
    ELSE LET n == ChangeRun(script, k)
             d == CountOf(script, k, n, "D")
             i == CountOf(script, k, n, "I")
             tag == IF d > 0 /\ i > 0 THEN "Replace"
                    ELSE IF d > 0 THEN "Delete" ELSE "Insert"
         IN  <<DiffOp(tag, oi, d, ni, i)>> \o ScriptOps(script, k + n, oi + d, ni + i)

\* usize::saturating_sub
SaturatingSub(a, b) == IF a > b THEN a - b ELSE 0

\* grouped_ops: the leading Equal keeps its last n lines
TrimFirst(ops, n) ==
    IF ops # <<>> /\ ops[1].tag = "Equal"
    THEN LET offset == SaturatingSub(ops[1].old_len, n)
         IN  <<DiffOp("Equal", ops[1].old_index + offset, ops[1].old_len - offset,
                      ops[1].new_index + offset, ops[1].new_len - offset)>> \o Tail(ops)
    ELSE ops

\* grouped_ops: the trailing Equal keeps its first n lines
TrimLast(ops, n) ==
    IF ops # <<>> /\ Last(ops).tag = "Equal"
    THEN LET op == Last(ops)
             len == op.old_len - SaturatingSub(op.old_len, n)
         IN  Front(ops) \o <<DiffOp("Equal", op.old_index, len, op.new_index, len)>>
    ELSE ops

\* grouped_ops: the loop over the ops; an Equal longer than 2n closes the
\* pending group with its first n lines and opens the next with its last n
RECURSIVE GroupLoop(_, _, _, _, _)
GroupLoop(ops, k, n, pending_group, rv) ==
    IF k > Len(ops)
    THEN IF pending_group = <<>> \/ (Len(pending_group) = 1 /\ pending_group[1].tag = "Equal")
         THEN rv
         ELSE Append(rv, pending_group)
    ELSE LET op == ops[k]
         IN  IF op.tag = "Equal" /\ op.old_len > n * 2
             THEN LET offset == SaturatingSub(op.old_len, n)
                  IN  GroupLoop(ops, k + 1, n,
                        <<DiffOp("Equal", op.old_index + offset, op.old_len - offset,
                                 op.new_index + offset, op.new_len - offset)>>,
                        Append(rv, Append(pending_group,
                                          DiffOp("Equal", op.old_index, n, op.new_index, n))))
             ELSE GroupLoop(ops, k + 1, n, Append(pending_group, op), rv)

\* TextDiff::grouped_ops(n): the groups of ops, each with n lines of context
grouped_ops(ops, n) ==
    IF ops = <<>> THEN <<>>
    ELSE GroupLoop(TrimLast(TrimFirst(ops, n), n), 1, n, <<>>, <<>>)

RECURSIVE Flatten(_)
Flatten(groups) == IF groups = <<>> THEN <<>> ELSE Head(groups) \o Flatten(Tail(groups))

\* Option<(usize, usize)>
None == <<>>
Some(start, len) == <<start, len>>

DiffChange(tag, content, old_range, new_range) ==
    [tag |-> tag, content |-> content, old_range |-> old_range, new_range |-> new_range]

\* lines().skip(start).take(len)
SkipTake(ls, start, len) == Slice(ls, Min(start, Len(ls)), Min(start + len, Len(ls)))

\* the DiffChange pushed for one op of a group, classified by the two lengths
ChangeOfOp(op, source, target) ==
    LET old_lines == SkipTake(StrLines(source), op.old_index, op.old_len)
        new_lines == SkipTake(StrLines(target), op.new_index, op.new_len)
    IN  IF op.old_len > 0 /\ op.new_len > 0
        THEN <<DiffChange("Replace", Join(new_lines),
                          Some(op.old_index, op.old_len), Some(op.new_index, op.new_len))>>
        ELSE IF op.old_len > 0
        THEN <<DiffChange("Delete", Join(old_lines), Some(op.old_index, op.old_len), None)>>
        ELSE IF op.new_len > 0
        THEN <<DiffChange("Insert", Join(new_lines), None, Some(op.new_index, op.new_len))>>
        ELSE <<>>

RECURSIVE ChangesOfOps(_, _, _)
ChangesOfOps(ops, source, target) ==
    IF ops = <<>> THEN <<>>
    ELSE ChangeOfOp(Head(ops), source, target) \o ChangesOfOps(Tail(ops), source, target)

\* the change list calculate_file_diff builds from one edit script
DiffChanges(source, target, script) ==
    ChangesOfOps(Flatten(grouped_ops(ScriptOps(script, 1, 0, 0), ContextRadius)),
                 source, target)

\* calculate_file_diff: fails unless both files are UTF-8 text; otherwise a
\* FileDiff for every edit script the diff may return
calculate_file_diff(source, target, relative_path) ==
    IF ~ReadToString(source).ok \/ ~ReadToString(target).ok
    THEN {[ok |-> FALSE]}
    ELSE {[ok |-> TRUE,
           file_diff |-> [relative_path |-> relative_path,
                          hash |-> calculate_file_hash(target),
                          original_hash |-> calculate_file_hash(source),
                          changes |-> DiffChanges(source, target, script)]] :
            script \in ShortestScripts(Tokens(source), Tokens(target))}

----------------------------------------------------------------------------
(* The applier's per-file diff loop (patch.rs, apply_patch)                *)

\* the sort key of a change: old_range's start, usize::MAX without old_range
SortKey(change) ==
    IF change.old_range = None THEN [max |-> TRUE, start |-> 0]
    ELSE [max |-> FALSE, start |-> change.old_range[1]]

KeyLess(a, b) == ~a.max /\ (b.max \/ a.start < b.start)

\* the index before which a change goes so that keys stay descending and
\* changes of equal key keep their order (sort_by is stable)
RECURSIVE SortedPosition(_, _, _)
SortedPosition(sorted, change, k) ==
    IF k > Len(sorted) \/ KeyLess(SortKey(sorted[k]), SortKey(change)) THEN k - 1
    ELSE SortedPosition(sorted, change, k + 1)

RECURSIVE SortInto(_, _)
SortInto(sorted, rest) ==
    IF rest = <<>> THEN sorted
    ELSE SortInto(InsertAt(sorted, SortedPosition(sorted, Head(rest), 1), Head(rest)),
                  Tail(rest))

\* sorted_changes.sort_by(|a, b| b_line.cmp(&a_line))
SortChanges(cs) == SortInto(<<>>, cs)

\* for (i, line) in new_lines.enumerate() { lines.insert(start + i, line) }
RECURSIVE InsertLines(_, _, _, _)
InsertLines(ls, start, new_lines, i) ==
    IF i >= Len(new_lines) THEN ls
    ELSE InsertLines(InsertAt(ls, start + i, new_lines[i + 1]), start, new_lines, i + 1)

\* the Replace arm inserts a line only while start + i <= lines.len()
RECURSIVE InsertLinesChecked(_, _, _, _)
InsertLinesChecked(ls, start, new_lines, i) ==
    IF i >= Len(new_lines) THEN ls
    ELSE IF start + i <= Len(ls)
    THEN InsertLinesChecked(InsertAt(ls, start + i, new_lines[i + 1]), start, new_lines, i + 1)
    ELSE InsertLinesChecked(ls, start, new_lines, i + 1)

DrainOld_to_the_end(ls, old_range) ==
    IF old_range # None /\ old_range[1] < Len(ls) THEN SubSeq(ls, 1, old_range[1]) ELSE ls

\* the removal shared by the Delete and Replace arms
DrainOld(ls, old_range) ==
    IF old_range # None /\ old_range[1] < Len(ls)
    THEN Drain(ls, old_range[1], Min(old_range[1] + old_range[2], Len(ls)))
    ELSE ls

\* one iteration of `for change in sorted_changes`
ApplyChange(ls, change) ==
    CASE change.tag = "Delete" -> DrainOld(ls, change.old_range)
      [] change.tag = "Insert" ->
            IF change.new_range # None /\ change.new_range[1] <= Len(ls)
            THEN InsertLines(ls, change.new_range[1], StrLines(change.content), 0)
            ELSE ls
      [] change.tag = "Equal" -> ls
      [] change.tag = "Replace" ->
            LET drained == DrainOld(ls, change.old_range)
            IN  IF change.new_range # None /\ change.new_range[1] <= Len(drained)
                THEN InsertLinesChecked(drained, change.new_range[1],
                                        StrLines(change.content), 0)
                ELSE drained

RECURSIVE ApplyChanges(_, _)
ApplyChanges(ls, cs) ==
    IF cs = <<>> THEN ls ELSE ApplyChanges(ApplyChange(ls, Head(cs)), Tail(cs))

\* the content the diff loop writes back to a live text file
ApplyFileDiff(content, file_diff) ==
    Join(ApplyChanges(StrLines(content), SortChanges(file_diff.changes)))

----------------------------------------------------------------------------
(* Each specification leaves the variables of the others at rest           *)

EnvIdle ==
    /\ current_exe_image = <<>>
    /\ exe_image = <<>>
    /\ patch_data_file = <<>>
    /\ zip_file = <<>>
    /\ extracted = [status |-> "NotRun"]
    /\ epc = "idle"

DiffIdle ==
    /\ source_content = Text(<<>>, FALSE)
    /\ target_content = Text(<<>>, FALSE)
    /\ changes = <<>>
    /\ sorted_changes = <<>>
    /\ lines = <<>>
    /\ new_content = Text(<<>>, FALSE)
    /\ dpc = "idle"

PatchIdle ==
    /\ source_dir = <<>>
    /\ target_dir = <<>>
    /\ args = <<>>
    /\ diffs = <<>>
    /\ gpc = "idle"
    /\ live = <<>>
    /\ run_image = <<>>
    /\ exe_path = <<>>
    /\ mode = "idle"
    /\ cli = <<>>
    /\ confirmed = "unasked"
    /\ patch_data = <<>>
    /\ content_bytes = <<>>
    /\ extract_dir = <<>>
    /\ pending = <<>>
    /\ error = ""
    /\ pc = "idle"

\* create_zip_archive is not running
ZipIdle == zip = <<>>

DiffFrame == UNCHANGED <<envVars, patchVars, zipVars>>

EnvFrame == UNCHANGED <<diffVars, patchVars, zipVars>>

----------------------------------------------------------------------------
(* DiffSpec: one text pair through the differ and the diff loop            *)

Texts ==
    {c \in {Text(Repeat(PadLine, pad) \o body, eol) :
              pad \in {0, PadLen}, body \in SeqsUpTo(LineSet, MaxLines), eol \in BOOLEAN} :
       IsText(c)}

DiffInit ==
    /\ source_content \in Texts
    /\ target_content \in Texts
    /\ changes = <<>>
    /\ sorted_changes = <<>>
    /\ lines = <<>>
    /\ new_content = Text(<<>>, FALSE)
    /\ dpc = "diff"
    /\ EnvIdle
    /\ PatchIdle
    /\ ZipIdle

\* diff.rs: calculate_file_diff(source, target)
CalculateFileDiff ==
    /\ dpc = "diff"
    /\ \E r \in calculate_file_diff(source_content, target_content, <<>>) :
          /\ r.ok
          /\ changes' = r.file_diff.changes
    /\ dpc' = "read"
    /\ UNCHANGED <<source_content, target_content, sorted_changes, lines, new_content>>
    /\ DiffFrame

\* patch.rs: the live file (the source text) is split into lines and the
\* changes are copied and sorted
ReadAndSort ==
    /\ dpc = "read"
    /\ lines' = StrLines(source_content)
    /\ sorted_changes' = SortChanges(changes)
    /\ dpc' = "apply"
    /\ UNCHANGED <<source_content, target_content, changes, new_content>>
    /\ DiffFrame

\* patch.rs: one iteration of the loop over the sorted changes
ApplyNextChange ==
    /\ dpc = "apply"
    /\ sorted_changes # <<>>
    /\ lines' = ApplyChange(lines, Head(sorted_changes))
    /\ sorted_changes' = Tail(sorted_changes)
    /\ UNCHANGED <<source_content, target_content, changes, new_content, dpc>>
    /\ DiffFrame

\* patch.rs: the lines are joined and written back
WriteBack ==
    /\ dpc = "apply"
    /\ sorted_changes = <<>>
    /\ new_content' = Join(lines)
    /\ dpc' = "done"
    /\ UNCHANGED <<source_content, target_content, changes, sorted_changes, lines>>
    /\ DiffFrame

DiffNext == CalculateFileDiff \/ ReadAndSort \/ ApplyNextChange \/ WriteBack

DiffSpec == DiffInit /\ [][DiffNext]_vars

----------------------------------------------------------------------------
(* Diff fidelity *)

\* C2: for every text pair (s, t), applying the changes of
\* calculate_file_diff(s, t) to the lines of s with the applier's procedure
\* yields exactly the lines of t.
DiffFidelity == (dpc = "done") => (lines = StrLines(target_content))

----------------------------------------------------------------------------
(* The envelope codec (patch.rs): append_data_to_exe and                   *)
(* extract_patch_data_from_exe                                             *)
(*                                                                         *)
(* An image is a sequence of bytes. A u64 is kept as its 8 little-endian   *)
(* byte values, so that its arithmetic is that of the 64-bit machine word. *)
(* A JSON document and a zip archive are byte strings whose units are the  *)
(* members of the document and the entries of the archive.                 *)

\* the byte of value n
Byte(n) == [byte |-> n]

Bytes(ns) == [i \in 1..Len(ns) |-> Byte(ns[i])]

\* b"PATCH_END"
PATCH_END == Bytes(<<80, 65, 84, 67, 72, 95, 69, 78, 68>>)

\* the size below which the decoder answers "too small"
MinImageSize == 24

\* distance from the end of the image to the two length fields
SizeDataOffset == 25

\* the k low bytes of n, least significant first
RECURSIVE LeBytes(_, _)
LeBytes(n, k) == IF k = 0 THEN <<>> ELSE <<n % 256>> \o LeBytes(n \div 256, k - 1)

\* the 64-bit word of a number the model can count to
Word(n) == LeBytes(n, 8)

\* u64::to_le_bytes
to_le_bytes(word) == Bytes(word)

\* u64::from_le_bytes
from_le_bytes(bytes) == [i \in 1..8 |-> bytes[i].byte]

\* a - b on 64-bit words, byte by byte with borrow; overflow tells whether
\* the true difference is negative
RECURSIVE SubBytes(_, _, _, _)
SubBytes(a, b, i, borrow) ==
    IF i > 8 THEN [bytes |-> <<>>, overflow |-> (borrow = 1)]
    ELSE LET d == a[i] - b[i] - borrow
             rest == SubBytes(a, b, i + 1, IF d < 0 THEN 1 ELSE 0)
         IN  [bytes |-> <<d % 256>> \o rest.bytes, overflow |-> rest.overflow]

Sub64(a, b) == SubBytes(a, b, 1, 0)

\* the word as a file position or buffer length the model can count to
IsSmall64(a) == \A i \in 4..8 : a[i] = 0

ToNat(a) == a[1] + 256 * a[2] + 65536 * a[3]

\* lseek takes the offset as i64: a word above i64::MAX is rejected
FitsI64(a) == a[8] < 128

append_data_to_exe_sizes_swapped(exe, patch_json, zip_data) ==
    exe \o patch_json \o zip_data
        \o to_le_bytes(Word(Len(zip_data))) \o to_le_bytes(Word(Len(patch_json)))
        \o PATCH_END

\* append_data_to_exe: the file opened for append receives the manifest,
\* the archive, the two lengths and the marker
append_data_to_exe(exe, patch_json, zip_data) ==
    exe \o patch_json \o zip_data
        \o to_le_bytes(Word(Len(patch_json))) \o to_le_bytes(Word(Len(zip_data)))
        \o PATCH_END

\* read_exact of the n bytes at position pos: fails at the end of the file
ReadExact(image, pos, n) ==
    IF pos + n <= Len(image)
    THEN [ok |-> TRUE, bytes |-> Slice(image, pos, pos + n)]
    ELSE [ok |-> FALSE, bytes |-> <<>>]

\* vec![0u8; size as usize] followed by read_exact at the file position:
\* a size above isize::MAX panics (capacity overflow); a buffer the file
\* cannot fill ends in an allocation failure or an unexpected end of file.
ReadBuffer(image, position, size) ==
    IF ~FitsI64(size)
    THEN [status |-> "Panic", bytes |-> <<>>, position |-> position]
    ELSE IF size = Word(0)
    THEN [status |-> "Read", bytes |-> <<>>, position |-> position]
    ELSE IF ~IsSmall64(position) \/ ~IsSmall64(size)
            \/ ~ReadExact(image, ToNat(position), ToNat(size)).ok
    THEN [status |-> "ReadFailed", bytes |-> <<>>, position |-> position]
    ELSE [status |-> "Read",
          bytes |-> ReadExact(image, ToNat(position), ToNat(size)).bytes,
          position |-> Word(ToNat(position) + ToNat(size))]

Trailer(status, read_sizes, offset, wrapped, patch_data_bytes, zip_bytes) ==
    [status |-> status, read_sizes |-> read_sizes, offset |-> offset, wrapped |-> wrapped,
     patch_data_bytes |-> patch_data_bytes, content_bytes |-> zip_bytes]

end_marker_unchecked(end_marker) == TRUE

\* extract_patch_data_from_exe: the test of the last nine bytes of the image
end_marker_matches(end_marker) == end_marker = PATCH_END

\* The part of extract_patch_data_from_exe that reads the image.
\* overflow_checks is the build's setting: with it a u64 subtraction below
\* zero panics, without it the result wraps.
\*   status     how the function ended
\*   read_sizes whether it went on to the 16 length bytes at size - 25
\*   offset     the payload offset it computed and sought, None if it did not
\*   wrapped    whether that offset came from a subtraction below zero
ReadTrailer(image, overflow_checks) ==
    LET file_size == Len(image)
    IN
    IF file_size < MinImageSize
    THEN Trailer("TooSmall", FALSE, None, FALSE, <<>>, <<>>)
    ELSE IF ~end_marker_matches(Slice(image, file_size - 9, file_size))
    THEN Trailer("MissingEndMarker", FALSE, None, FALSE, <<>>, <<>>)
    ELSE IF file_size < SizeDataOffset
    THEN \* seek(End(-25)) before the start of the file
         Trailer("SeekSizeDataFailed", TRUE, None, FALSE, <<>>, <<>>)
    ELSE
      LET size_data == Slice(image, file_size - SizeDataOffset, file_size - 9)
          patch_data_size == from_le_bytes(SubSeq(size_data, 1, 8))
          zip_data_size == from_le_bytes(SubSeq(size_data, 9, 16))
          d1 == Sub64(Word(file_size - SizeDataOffset), patch_data_size)
          d2 == Sub64(d1.bytes, zip_data_size)
          offset == d2.bytes
          wrapped == d1.overflow \/ d2.overflow
      IN
      IF wrapped /\ overflow_checks
      THEN Trailer("Panic", TRUE, None, FALSE, <<>>, <<>>)
      ELSE IF ~FitsI64(offset)
      THEN Trailer("SeekFailed", TRUE, offset, wrapped, <<>>, <<>>)
      ELSE
        LET m == ReadBuffer(image, offset, patch_data_size)
        IN
        IF m.status # "Read"
        THEN Trailer(m.status, TRUE, offset, wrapped, <<>>, <<>>)
        ELSE
          LET a == ReadBuffer(image, m.position, zip_data_size)
          IN  IF a.status # "Read"
              THEN Trailer(a.status, TRUE, offset, wrapped, m.bytes, <<>>)
              ELSE Trailer("Read", TRUE, offset, wrapped, m.bytes, a.bytes)

\* PatchData, the manifest
PatchData(check_files, added_files, modified_files, modified_diffs, removed_files) ==
    [check_files |-> check_files, added_files |-> added_files,
     modified_files |-> modified_files, modified_diffs |-> modified_diffs,
     removed_files |-> removed_files]

ManifestKeys ==
    <<"check_files", "added_files", "modified_files", "modified_diffs", "removed_files">>

\* serde_json::to_string_pretty: the JSON object, one member per field of
\* PatchData. A member is carried as one unit of the byte string.
to_string_pretty(manifest) ==
    <<[key |-> "check_files", value |-> manifest.check_files],
      [key |-> "added_files", value |-> manifest.added_files],
      [key |-> "modified_files", value |-> manifest.modified_files],
      [key |-> "modified_diffs", value |-> manifest.modified_diffs],
      [key |-> "removed_files", value |-> manifest.removed_files]>>

IsMember(b) == "key" \in DOMAIN b

\* serde_json::from_slice::<PatchData>: every field is required, none may
\* occur twice, and nothing else may be in the document
from_slice(bytes) ==
    IF /\ Len(bytes) = Len(ManifestKeys)
       /\ \A i \in 1..Len(bytes) : IsMember(bytes[i])
       /\ \A k \in 1..Len(ManifestKeys) :
             \E i \in 1..Len(bytes) : bytes[i].key = ManifestKeys[k]
    THEN [ok |-> TRUE,
          patch_data |-> PatchData(bytes[CHOOSE i \in 1..Len(bytes) : bytes[i].key = "check_files"].value,
                                   bytes[CHOOSE i \in 1..Len(bytes) : bytes[i].key = "added_files"].value,
                                   bytes[CHOOSE i \in 1..Len(bytes) : bytes[i].key = "modified_files"].value,
                                   bytes[CHOOSE i \in 1..Len(bytes) : bytes[i].key = "modified_diffs"].value,
                                   bytes[CHOOSE i \in 1..Len(bytes) : bytes[i].key = "removed_files"].value)]
    ELSE [ok |-> FALSE, patch_data |-> PatchData(<<>>, <<>>, <<>>, <<>>, <<>>)]

\* extract_patch_data_from_exe: the trailer is read and the manifest bytes
\* are deserialized; the archive bytes are returned as they are
extract_patch_data_from_exe(image, overflow_checks) ==
    LET t == ReadTrailer(image, overflow_checks)
        d == from_slice(t.patch_data_bytes)
    IN  [status |-> IF t.status # "Read" THEN t.status
                    ELSE IF d.ok THEN "Ok" ELSE "DeserializeFailed",
         read_sizes |-> t.read_sizes, offset |-> t.offset, wrapped |-> t.wrapped,
         patch_data_bytes |-> t.patch_data_bytes, content_bytes |-> t.content_bytes,
         patch_data |-> IF t.status = "Read" THEN d.patch_data
                        ELSE PatchData(<<>>, <<>>, <<>>, <<>>, <<>>)]

----------------------------------------------------------------------------
(* EnvelopeSpec: an executable image through the codec                     *)

\* longest run of bytes in front of the last 25 bytes of a generated image
MaxJunk == 2
\* most bytes cut from the front of a generated image
MaxCut == 2
\* longest generated manifest or archive byte string
MaxPayload == 1

\* values of a 64-bit length field: small ones, i64::MAX, 2^63 and u64::MAX
LengthWords ==
    {Word(0), Word(1), Word(2),
     <<255, 255, 255, 255, 255, 255, 255, 127>>,
     <<0, 0, 0, 0, 0, 0, 0, 128>>,
     <<255, 255, 255, 255, 255, 255, 255, 255>>}

\* the last 9 bytes of an image: the marker, or the marker with a wrong byte
Endings == {PATCH_END, Bytes(<<80, 65, 84, 67, 72, 95, 69, 78, 0>>)}

\* Images of an executable: any bytes, among them images that end like a
\* trailer, whole or cut short.
Images ==
    {SubSeq(img, cut + 1, Len(img)) :
        cut \in 0..MaxCut,
        img \in {junk \o to_le_bytes(l1) \o to_le_bytes(l2) \o ending :
                    junk \in SeqsUpTo({Byte(0), Byte(7)}, MaxJunk),
                    l1 \in LengthWords, l2 \in LengthWords, ending \in Endings}}

\* byte strings of a manifest file: any bytes, or a manifest's JSON document
ManifestBytes ==
    SeqsUpTo({Byte(1), Byte(2)}, MaxPayload)
        \cup {to_string_pretty(PatchData(<<>>, <<>>, <<>>, <<>>, <<>>))}

ArchiveBytes == SeqsUpTo({Byte(1), Byte(2)}, MaxPayload)

\* create_patch has copied the running executable to the output path and
\* written patch_data.json and patch_content.zip
EnvInit ==
    /\ current_exe_image \in Images
    /\ exe_image = current_exe_image
    /\ patch_data_file \in ManifestBytes
    /\ zip_file \in ArchiveBytes
    /\ extracted = [status |-> "NotRun"]
    /\ epc = "copied"
    /\ DiffIdle
    /\ PatchIdle
    /\ ZipIdle

\* patch.rs: append_data_to_exe(target_output_file, patch_data_path, zip_path)
AppendDataToExe ==
    /\ epc = "copied"
    /\ exe_image' = append_data_to_exe(exe_image, patch_data_file, zip_file)
    /\ epc' = "appended"
    /\ UNCHANGED <<current_exe_image, patch_data_file, zip_file, extracted>>
    /\ EnvFrame

\* patch.rs: extract_patch_data_from_exe() run from the image, either the
\* executable as it was copied or the artifact
ExtractPatchData ==
    /\ epc \in {"copied", "appended"}
    /\ \E overflow_checks \in BOOLEAN :
          extracted' = extract_patch_data_from_exe(exe_image, overflow_checks)
    /\ epc' = IF epc = "copied" THEN "extracted_plain" ELSE "extracted_artifact"
    /\ UNCHANGED <<current_exe_image, exe_image, patch_data_file, zip_file>>
    /\ EnvFrame

EnvNext == AppendDataToExe \/ ExtractPatchData

EnvelopeSpec == EnvInit /\ [][EnvNext]_vars

----------------------------------------------------------------------------
(* Envelope properties *)

Extracted == epc \in {"extracted_plain", "extracted_artifact"}

EndsInMarker(image) ==
    Len(image) >= 9 /\ Slice(image, Len(image) - 9, Len(image)) = PATCH_END

\* C3: the artifact is stub || M || A || len(M) || len(A) || "PATCH_END" and
\* the decoder reads back exactly M, at offset size - 25 - len(M) - len(A),
\* and exactly A, whatever the stub.
EnvelopeRoundTrip ==
    /\ epc \in {"appended", "extracted_artifact"} =>
          exe_image = current_exe_image \o patch_data_file \o zip_file
                        \o to_le_bytes(Word(Len(patch_data_file)))
                        \o to_le_bytes(Word(Len(zip_file))) \o PATCH_END
    /\ epc = "extracted_artifact" =>
          /\ extracted.status \in {"Ok", "DeserializeFailed"}
          /\ extracted.patch_data_bytes = patch_data_file
          /\ extracted.content_bytes = zip_file
          /\ extracted.offset =
                Word(Len(exe_image) - 25 - Len(patch_data_file) - Len(zip_file))
          /\ ToNat(extracted.offset) = Len(current_exe_image)
          /\ (extracted.status = "Ok" <=> from_slice(patch_data_file).ok)

\* an artifact with a non-empty stub, manifest and archive has been decoded
EnvelopeRoundTripWitness ==
    /\ epc = "extracted_artifact"
    /\ Len(current_exe_image) > 0
    /\ patch_data_file # <<>>
    /\ zip_file # <<>>
    /\ patch_data_file # zip_file
    /\ extracted.patch_data_bytes = patch_data_file

\* C6: every image shorter than 25 bytes is rejected as too small and never
\* reaches the step that reads the 16 length bytes at offset size - 25.
TooSmallRejected ==
    (Extracted /\ Len(exe_image) < 25) =>
        (extracted.status = "TooSmall" /\ ~extracted.read_sizes)

\* the true value of size - 25 - manifest_len - archive_len is negative
PayloadStartNegative(image) ==
    LET size_data == Slice(image, Len(image) - 25, Len(image) - 9)
        d1 == Sub64(Word(Len(image) - 25), from_le_bytes(SubSeq(size_data, 1, 8)))
        d2 == Sub64(d1.bytes, from_le_bytes(SubSeq(size_data, 9, 16)))
    IN  d1.overflow \/ d2.overflow

\* C7: an image ending in PATCH_END whose length fields sum to more than
\* size - 25 is rejected with the length-overflow error, and no wrapped
\* offset is computed, sought or read from.
LengthOverflowRejected ==
    (Extracted /\ Len(exe_image) >= 25 /\ EndsInMarker(exe_image)
       /\ PayloadStartNegative(exe_image)) =>
        (extracted.status = "LengthOverflow" /\ extracted.offset = None)

----------------------------------------------------------------------------
(* Paths and directory trees                                               *)
(*                                                                         *)
(* A name is a sequence of characters, a relative path a sequence of       *)
(* names. A tree maps the paths of its regular files to their contents.    *)

\* the names of the components of a path that start with '.'
StartsWithDot(name) == Len(name) > 0 /\ name[1] = "."

\* Path::extension of a file name: what follows the last '.', unless the
\* name has no '.', only a leading one, or is ".."
Extension(name) ==
    LET dots == {i \in 1..Len(name) : name[i] = "."}
        last == CHOOSE i \in dots : \A j \in dots : j <= i
    IN  IF dots = {} \/ name = <<".", ".">> THEN [some |-> FALSE, ext |-> <<>>]
        ELSE IF last = 1 THEN [some |-> FALSE, ext |-> <<>>]
        ELSE [some |-> TRUE, ext |-> SubSeq(name, last + 1, Len(name))]

\* whether a sequence contains an element
Contains(seq, x) == \E i \in 1..Len(seq) : seq[i] = x

\* Option<&[String]>: None, or the list
NoList == [some |-> FALSE, list |-> <<>>]
SomeList(list) == [some |-> TRUE, list |-> list]

should_exclude_own_name(path, exclude_extensions, exclude_dirs) ==
    \/ /\ exclude_extensions.some
       /\ path # <<>>
       /\ Extension(Last(path)).some
       /\ Contains(exclude_extensions.list, Extension(Last(path)).ext)
    \/ /\ exclude_dirs.some
       /\ \E k \in 1..Len(path) : Contains(exclude_dirs.list, path[k])

\* diff.rs: should_exclude(path, exclude_extensions, exclude_dirs)
should_exclude(path, exclude_extensions, exclude_dirs) ==
    LET e == IF path = <<>> THEN [some |-> FALSE, ext |-> <<>>] ELSE Extension(Last(path))
        dot_ext == <<".">> \o e.ext
    IN  \/ /\ exclude_extensions.some
           /\ e.some
           /\ \E i \in 1..Len(exclude_extensions.list) :
                 \/ exclude_extensions.list[i] = dot_ext
                 \/ exclude_extensions.list[i] = e.ext
        \/ /\ exclude_dirs.some
           \* the ancestors of the path after the path itself; the empty one
           \* has no file name
           /\ \E k \in 1..(Len(path) - 1) :
                 Contains(exclude_dirs.list, Last(SubSeq(path, 1, k)))

\* metadata.len(): the size of a file in bytes
RECURSIVE LinesSize(_)
LinesSize(ls) ==
    IF ls = <<>> THEN 0
    ELSE (IF Head(ls) = "" THEN 0 ELSE 1) + LinesSize(Tail(ls))

FileSize(c) ==
    IF c.utf8
    THEN LinesSize(c.lines) + (IF c.lines = <<>> THEN 0 ELSE Len(c.lines) - 1)
            + (IF c.eol THEN 1 ELSE 0)
    ELSE Len(c.lines)

FileInfo(relative_path, hash, size) ==
    [relative_path |-> relative_path, hash |-> hash, size |-> size]

\* diff.rs: scan_directory(dir_path, exclude_extensions, exclude_dirs), the
\* map from the relative paths of the files kept by the filter to their
\* FileInfo
scan_directory(dir, exclude_extensions, exclude_dirs) ==
    LET files_to_process ==
          {path \in DOMAIN dir :
              /\ ~(\E i \in 1..Len(path) : StartsWithDot(path[i]))
              /\ ~should_exclude(path, exclude_extensions, exclude_dirs)}
    IN  [path \in files_to_process |->
            FileInfo(path, calculate_file_hash(dir[path]), FileSize(dir[path]))]

\* the orders in which the elements of a set can be visited
Orders(S) ==
    {order \in [1..Cardinality(S) -> S] :
        \A i, j \in 1..Cardinality(S) : i # j => order[i] # order[j]}

\* DiffType, the Change variants
Added(file_info) == [type |-> "Added", file_info |-> file_info]
Modified(file_info) == [type |-> "Modified", file_info |-> file_info]
ModifiedDiff(file_diff) == [type |-> "ModifiedDiff", file_diff |-> file_diff]
Removed(path) == [type |-> "Removed", path |-> path]

TargetChange_hash_ignored(path, source_files, target_files, use_diff_patches, file_diffs) ==
    IF path \in DOMAIN source_files
    THEN <<Modified(target_files[path])>>
    ELSE <<Added(target_files[path])>>

\* compare_directories: the body of the loop over the target files.
\* file_diffs[path] is what calculate_file_diff returned for the path.
TargetChange(path, source_files, target_files, use_diff_patches, file_diffs) ==
    IF path \in DOMAIN source_files
    THEN IF source_files[path].hash # target_files[path].hash
         THEN IF use_diff_patches
              THEN IF file_diffs[path].ok
                   THEN <<ModifiedDiff(file_diffs[path].file_diff)>>
                   ELSE <<Modified(target_files[path])>>
              ELSE <<Modified(target_files[path])>>
         ELSE <<>>
    ELSE <<Added(target_files[path])>>

RECURSIVE TargetLoop(_, _, _, _, _, _)
TargetLoop(order, k, source_files, target_files, use_diff_patches, file_diffs) ==
    IF k > Len(order) THEN <<>>
    ELSE TargetChange(order[k], source_files, target_files, use_diff_patches, file_diffs)
            \o TargetLoop(order, k + 1, source_files, target_files, use_diff_patches,
                          file_diffs)

RECURSIVE SourceLoop_all_removed(_, _, _)
SourceLoop_all_removed(order, k, target_files) ==
    IF k > Len(order) THEN <<>>
    ELSE <<Removed(order[k])>> \o SourceLoop_all_removed(order, k + 1, target_files)

\* compare_directories: the loop over the source files
RECURSIVE SourceLoop(_, _, _)
SourceLoop(order, k, target_files) ==
    IF k > Len(order) THEN <<>>
    ELSE (IF order[k] \notin DOMAIN target_files THEN <<Removed(order[k])>> ELSE <<>>)
            \o SourceLoop(order, k + 1, target_files)

\* the paths for which compare_directories calls calculate_file_diff
DiffedPaths(source_files, target_files, use_diff_patches) ==
    {path \in DOMAIN target_files \cap DOMAIN source_files :
        use_diff_patches /\ source_files[path].hash # target_files[path].hash}

\* diff.rs: compare_directories. The two maps are hash maps: the set of
\* results ranges over their iteration orders and over the edit scripts.
compare_directories(source, target, exclude_extensions, exclude_dirs, use_diff_patches) ==
    LET source_files == scan_directory(source, exclude_extensions, exclude_dirs)
        target_files == scan_directory(target, exclude_extensions, exclude_dirs)
        diffed == DiffedPaths(source_files, target_files, use_diff_patches)
        results == UNION {calculate_file_diff(source[path], target[path], path) :
                            path \in diffed}
    IN  {TargetLoop(target_order, 1, source_files, target_files, use_diff_patches,
                    file_diffs)
            \o SourceLoop(source_order, 1, target_files) :
            target_order \in Orders(DOMAIN target_files),
            source_order \in Orders(DOMAIN source_files),
            file_diffs \in {f \in [diffed -> results] :
                              \A path \in diffed :
                                 f[path] \in calculate_file_diff(source[path],
                                                                 target[path], path)}}

----------------------------------------------------------------------------
(* Patch creation (patch.rs): PatchData::from_diffs, create_patch,         *)
(* create_zip_archive                                                      *)

\* the elements of a sequence that satisfy a test, in their order
RECURSIVE SelectType(_, _)
SelectType(ds, type) ==
    IF ds = <<>> THEN <<>>
    ELSE (IF Head(ds).type = type THEN <<Head(ds)>> ELSE <<>>) \o SelectType(Tail(ds), type)

from_diffs_removed_dropped(ds, check_files) ==
    PatchData(check_files,
              [i \in 1..Len(SelectType(ds, "Added")) |-> SelectType(ds, "Added")[i].file_info],
              [i \in 1..Len(SelectType(ds, "Modified")) |->
                  SelectType(ds, "Modified")[i].file_info],
              [i \in 1..Len(SelectType(ds, "ModifiedDiff")) |->
                  SelectType(ds, "ModifiedDiff")[i].file_diff],
              <<>>)

\* PatchData::from_diffs(diffs, check_files)
from_diffs(ds, check_files) ==
    PatchData(check_files,
              [i \in 1..Len(SelectType(ds, "Added")) |-> SelectType(ds, "Added")[i].file_info],
              [i \in 1..Len(SelectType(ds, "Modified")) |->
                  SelectType(ds, "Modified")[i].file_info],
              [i \in 1..Len(SelectType(ds, "ModifiedDiff")) |->
                  SelectType(ds, "ModifiedDiff")[i].file_diff],
              [i \in 1..Len(SelectType(ds, "Removed")) |-> SelectType(ds, "Removed")[i].path])

\* create_patch: added_files chained with modified_files
files_to_copy(manifest) == manifest.added_files \o manifest.modified_files

SeqRange(seq) == {seq[i] : i \in 1..Len(seq)}

\* create_patch: the content directory after the parallel copy. A file whose
\* directory creation or copy fails is skipped.
StageContent(target, manifest, failed_copies) ==
    LET staged == {info.relative_path : info \in SeqRange(files_to_copy(manifest))}
                    \ failed_copies
    IN  [path \in staged \cap DOMAIN target |-> target[path]]

ZipEntry(name, data) == [name |-> name, data |-> data]

\* the record that closes a zip archive, with its count of entries
ZipEnd(n) == [entries |-> n]

\* create_zip_archive(content_dir, zip_path): every file that is read is
\* pushed to the collector, in the order the workers get to it, and the
\* collected files are written to the archive one after the other
create_zip_archive(content_dir, failed_reads, order) ==
    LET contents == SelectSeq(order, LAMBDA path : path \notin failed_reads)
    IN  [i \in 1..Len(contents) |-> ZipEntry(contents[i], content_dir[contents[i]])]
            \o <<ZipEnd(Len(contents))>>

\* create_patch(source_dir, target_dir, output_file, diffs, check_files):
\* the bytes of the artifact written to the output path
create_patch(current_exe, target, ds, check_files, failed_copies, failed_reads, order) ==
    LET manifest == from_diffs(ds, check_files)
        patch_json == to_string_pretty(manifest)
        content_dir == StageContent(target, manifest, failed_copies)
        zip_data == create_zip_archive(content_dir, failed_reads, order)
    IN  append_data_to_exe(current_exe, patch_json, zip_data)

----------------------------------------------------------------------------
(* Spec: the generator (main.rs, create command)                           *)

NameF == <<"f">>
NameG == <<"g">>
NameXL == <<"x", ".", "l">>

\* the paths of the files a generated tree may hold
PathSet == {<<NameF>>, <<NameF, NameG>>, <<NameXL>>}

\* the contents a generated file may have
ContentSet == {Text(<<"a", "b">>, FALSE), Text(<<"b">>, FALSE), Binary("x")}

IsProperPrefix(p, q) == Len(p) < Len(q) /\ SubSeq(q, 1, Len(p)) = p

\* a tree: no regular file is at the same time a directory of another file
IsTree(t) == \A p, q \in DOMAIN t : ~IsProperPrefix(p, q)

TreesOver(paths, contents) ==
    {t \in UNION {[D -> contents] : D \in SUBSET paths} : IsTree(t)}

\* the directories of a tree: the proper prefixes of its file paths
DirsOf(t) == UNION {{SubSeq(p, 1, k) : k \in 1..(Len(p) - 1)} : p \in DOMAIN t}

\* the image of the generator executable: it does not end in the marker
GeneratorImage == Bytes(Repeat(0, SizeDataOffset))

Args(exclude_extensions, exclude_dirs, use_diff_patches, check_files) ==
    [exclude_extensions |-> exclude_extensions, exclude_dirs |-> exclude_dirs,
     use_diff_patches |-> use_diff_patches, check_files |-> check_files]

Pending(file_diffs, copies, removals) ==
    [diffs |-> file_diffs, copies |-> copies, removals |-> removals]

\* the command line of a started process: the command and, for apply, the
\* content of the file --patch-data names
Cli(command, patch_data_arg) == [command |-> command, patch_data |-> patch_data_arg]

ApplierAtRest ==
    /\ run_image = <<>>
    /\ mode = "NotStarted"
    /\ cli = Cli("none", <<>>)
    /\ confirmed = "unasked"
    /\ patch_data = PatchData(<<>>, <<>>, <<>>, <<>>, <<>>)
    /\ content_bytes = <<>>
    /\ extract_dir = <<>>
    /\ pending = Pending(<<>>, {}, {})
    /\ error = ""
    /\ pc = "Init"

Init ==
    /\ source_dir \in TreesOver(PathSet, ContentSet)
    /\ target_dir \in TreesOver(PathSet, ContentSet)
    /\ args \in {Args(e, NoList, u, c) :
                    e \in {NoList, SomeList(<<<<".", "l">>>>)},
                    u \in BOOLEAN,
                    c \in {<<>>, <<<<NameF>>>>}}
    /\ diffs = <<>>
    /\ gpc = "start"
    /\ live = [files |-> source_dir, dirs |-> DirsOf(source_dir)]
    /\ exe_path = <<>>
    /\ ApplierAtRest
    /\ current_exe_image = GeneratorImage
    /\ exe_image = <<>>
    /\ patch_data_file = <<>>
    /\ zip_file = <<>>
    /\ extracted = [status |-> "NotRun"]
    /\ epc = "idle"
    /\ DiffIdle
    /\ ZipIdle

PatchFrame == UNCHANGED <<diffVars, epc, zipVars>>

applierVars == <<live, run_image, exe_path, mode, cli, confirmed, patch_data,
                 content_bytes, extract_dir, pending, error, pc>>

generatorVars == <<source_dir, target_dir, args, diffs, gpc, current_exe_image,
                   patch_data_file, zip_file>>

\* the entries of the archive create_patch embedded in the artifact
ArchiveEntries == IF zip_file = <<>> THEN <<>> ELSE Front(zip_file)

\* main.rs: the create command calls compare_directories
CompareDirectories ==
    /\ gpc = "start"
    /\ diffs' \in compare_directories(source_dir, target_dir, args.exclude_extensions,
                                      args.exclude_dirs, args.use_diff_patches)
    /\ gpc' = "compared"
    /\ UNCHANGED <<source_dir, target_dir, args, applierVars,
                   current_exe_image, exe_image, patch_data_file, zip_file, extracted>>
    /\ PatchFrame

\* main.rs: no differences, or the user does not confirm: no patch
NoPatch ==
    /\ gpc = "compared"
    /\ gpc' = "exit"
    /\ UNCHANGED <<source_dir, target_dir, args, diffs, applierVars,
                   current_exe_image, exe_image, patch_data_file, zip_file, extracted>>
    /\ PatchFrame

\* main.rs: differences found and confirmed: create_patch writes the
\* artifact. Any of the files to stage may fail to be copied or to be read
\* back for the archive.
CreatePatch ==
    /\ gpc = "compared"
    /\ diffs # <<>>
    /\ LET manifest == from_diffs(diffs, args.check_files)
           to_stage == {info.relative_path : info \in SeqRange(files_to_copy(manifest))}
       IN  \E failed_copies \in SUBSET to_stage :
           \E failed_reads \in SUBSET (to_stage \ failed_copies) :
           \E order \in Orders(DOMAIN StageContent(target_dir, manifest, failed_copies)) :
              /\ patch_data_file' = to_string_pretty(manifest)
              /\ zip_file' = create_zip_archive(
                                StageContent(target_dir, manifest, failed_copies),
                                failed_reads, order)
              /\ exe_image' = create_patch(current_exe_image, target_dir, diffs,
                                           args.check_files, failed_copies, failed_reads,
                                           order)
    /\ gpc' = "created"
    /\ UNCHANGED <<source_dir, target_dir, args, diffs, applierVars, current_exe_image,
                   extracted>>
    /\ PatchFrame

----------------------------------------------------------------------------
(* The file system under current_dir                                       *)

\* Path::exists
Exists(fs, path) == path = <<>> \/ path \in DOMAIN fs.files \/ path \in fs.dirs

IsDir(fs, path) == path = <<>> \/ path \in fs.dirs

\* the non-empty prefixes of a path
Prefixes(path) == {SubSeq(path, 1, k) : k \in 1..Len(path)}

\* fs::create_dir_all(dir): fails when a prefix of dir is a regular file
CreateDirAll(fs, dir) ==
    IF \E p \in Prefixes(dir) : p \in DOMAIN fs.files
    THEN [ok |-> FALSE, fs |-> fs]
    ELSE [ok |-> TRUE, fs |-> [fs EXCEPT !.dirs = @ \cup Prefixes(dir)]]

\* File::create(path) and the write of the content: fails when the parent
\* is not a directory or the path is a directory
WriteFile(fs, path, content) ==
    IF path = <<>> \/ ~IsDir(fs, Front(path)) \/ path \in fs.dirs
    THEN [ok |-> FALSE, fs |-> fs]
    ELSE [ok |-> TRUE,
          fs |-> [fs EXCEPT !.files = [q \in DOMAIN @ \cup {path} |->
                                          IF q = path THEN content ELSE @[q]]]]

\* fs::remove_file(path): fails on a directory and on a missing path
RemoveFile(fs, path) ==
    IF path \in DOMAIN fs.files
    THEN [fs EXCEPT !.files = [q \in DOMAIN @ \ {path} |-> @[q]]]
    ELSE fs

----------------------------------------------------------------------------
(* Patch application (patch.rs): verify_directory and apply_patch          *)

is_patch_executable_by_size(image) == Len(image) >= 9

\* main.rs: is_patch_executable
is_patch_executable(image) ==
    Len(image) >= 9 /\ Slice(image, Len(image) - 9, Len(image)) = PATCH_END

verify_directory_skipped(check_files, fs) == TRUE

\* verify_directory(check_files, current_dir)
verify_directory(check_files, fs) ==
    \A i \in 1..Len(check_files) : Exists(fs, check_files[i])

IsZipEntry(unit) == "name" \in DOMAIN unit

IsZipEnd(unit) == "entries" \in DOMAIN unit

\* zip::ZipArchive::new: the bytes are an archive when they are entries
\* closed by the end record that counts them
ZipArchiveNew(bytes) ==
    IF /\ bytes # <<>>
       /\ IsZipEnd(Last(bytes))
       /\ \A i \in 1..(Len(bytes) - 1) : IsZipEntry(bytes[i])
       /\ Last(bytes).entries = Len(bytes) - 1
    THEN [ok |-> TRUE, entries |-> Front(bytes)]
    ELSE [ok |-> FALSE, entries |-> <<>>]

\* ZipFile::enclosed_name: None for a name that is absolute or has a ".."
\* component
enclosed_name(name) ==
    IF name = <<>> \/ Contains(name, <<".", ".">>) \/ name[1] = <<"/">>
    THEN [some |-> FALSE, path |-> <<>>]
    ELSE [some |-> TRUE, path |-> name]

ExtractEntries_failures_dropped(entries, i, fs) == [ok |-> TRUE, fs |-> fs]

\* apply_patch: the loop that extracts the archive into the staging
\* directory; an entry without an enclosed name is skipped
\* The parent directory is created when it does not exist and the file is
\* created; either failing ends apply_patch. fs is the staging directory.
RECURSIVE ExtractEntries(_, _, _)
ExtractEntries(entries, i, fs) ==
    IF i > Len(entries) THEN [ok |-> TRUE, fs |-> fs]
    ELSE LET outpath == enclosed_name(entries[i].name)
             parent == Front(outpath.path)
             made == IF ~Exists(fs, parent) THEN CreateDirAll(fs, parent)
                     ELSE [ok |-> TRUE, fs |-> fs]
             written == WriteFile(made.fs, outpath.path, entries[i].data)
         IN  IF ~outpath.some THEN ExtractEntries(entries, i + 1, fs)
             ELSE IF ~made.ok \/ ~written.ok THEN [ok |-> FALSE, fs |-> fs]
             ELSE ExtractEntries(entries, i + 1, written.fs)

\* apply_patch: the body of the loop over modified_diffs for one FileDiff
ApplyDiffToLive(fs, file_diff) ==
    LET file_path == file_diff.relative_path
    IN  IF ~Exists(fs, file_path) THEN fs
        ELSE IF file_path \notin DOMAIN fs.files THEN fs
        ELSE IF ~ReadToString(fs.files[file_path]).ok THEN fs
        ELSE WriteFile(fs, file_path, ApplyFileDiff(fs.files[file_path], file_diff)).fs

CopyToLive_nothing_written(fs, rel_path, content) == fs

\* apply_patch: the body of the parallel copy for one extracted file
CopyToLive(fs, rel_path, content) ==
    LET parent == Front(rel_path)
        made == IF ~Exists(fs, parent) THEN CreateDirAll(fs, parent)
                ELSE [ok |-> TRUE, fs |-> fs]
    IN  IF ~made.ok THEN fs ELSE WriteFile(made.fs, rel_path, content).fs

\* apply_patch: the body of the parallel removal for one path
RemoveFromLive(fs, path) == IF Exists(fs, path) THEN RemoveFile(fs, path) ELSE fs

\* the path is the executable the applier is running from. Opening it for
\* writing is refused (text file busy, sharing violation); unlinking it is
\* refused on Windows and done on Unix.
RunningExe(path) == exe_path # <<>> /\ path = exe_path

\* a process is started from an image: the generator, or the file at the
\* output path once create_patch has written it
StartableImages == {current_exe_image} \cup (IF gpc = "created" THEN {exe_image} ELSE {})

\* what Decode leaves alone of the start of the process
startVars == <<exe_path, mode, cli>>

\* main.rs and apply_patch up to the decoded trailer: an image that ends in
\* the marker runs apply_patch at once, any other image parses its command
\* line and runs apply_patch for the apply command, whose --patch-data
\* argument main drops. apply_patch decodes the running executable.
Decode ==
    /\ pc = "Init"
    /\ gpc \in {"created", "exit"}
    /\ \E image \in StartableImages, patch_data_arg \in StartableImages,
          overflow_checks \in BOOLEAN :
          LET r == extract_patch_data_from_exe(image, overflow_checks)
          IN  /\ run_image' = image
              /\ IF is_patch_executable(image)
                 THEN mode' = "Applier" /\ cli' = Cli("none", <<>>)
                 ELSE mode' = "Generator" /\ cli' = Cli("apply", patch_data_arg)
              /\ extracted' = r
              /\ IF r.status = "Ok"
                 THEN /\ patch_data' = r.patch_data
                      /\ content_bytes' = r.content_bytes
                      /\ pc' = "Decoded"
                      /\ error' = ""
                 ELSE /\ pc' = "Failed"
                      /\ error' = r.status
                      /\ UNCHANGED <<patch_data, content_bytes>>
    /\ UNCHANGED <<generatorVars, exe_image, live, exe_path, confirmed, extract_dir,
                   pending>>
    /\ PatchFrame

\* the last byte of the artifact is damaged before it is run
CorruptTrailer ==
    /\ pc = "Init"
    /\ gpc = "created"
    /\ is_patch_executable(exe_image)
    /\ exe_image' = Front(exe_image) \o <<Byte(0)>>
    /\ UNCHANGED <<generatorVars, applierVars, extracted>>
    /\ PatchFrame

\* apply_patch: check_files is not empty and the directory is verified
VerifyDirectory ==
    /\ pc = "Decoded"
    /\ patch_data.check_files # <<>>
    /\ IF verify_directory(patch_data.check_files, live)
       THEN pc' = "Authenticated" /\ error' = ""
       ELSE pc' = "Failed" /\ error' = "DirectoryVerificationFailed"
    /\ UNCHANGED <<generatorVars, exe_image, extracted, live, run_image, startVars, confirmed,
                   patch_data, content_bytes, extract_dir, pending>>
    /\ PatchFrame

proceeds_whatever_the_answer(answer) == TRUE

\* apply_patch: if !Confirm...interact()? { return Ok(()) }
proceeds_after_prompt(answer) == answer

\* apply_patch: check_files is empty and the user is asked
Confirm ==
    /\ pc = "Decoded"
    /\ patch_data.check_files = <<>>
    /\ \E answer \in BOOLEAN :
          /\ confirmed' = IF answer THEN "yes" ELSE "no"
          /\ pc' = IF proceeds_after_prompt(answer) THEN "Authenticated" ELSE "Declined"
    /\ UNCHANGED <<generatorVars, exe_image, extracted, live, run_image, startVars, patch_data,
                   content_bytes, extract_dir, pending, error>>
    /\ PatchFrame

\* apply_patch: the archive is opened and extracted to the staging directory
Stage ==
    /\ pc = "Authenticated"
    /\ LET archive == ZipArchiveNew(content_bytes)
           unpacked == ExtractEntries(archive.entries, 1, [files |-> <<>>, dirs |-> {}])
       IN  IF ~archive.ok
           THEN /\ pc' = "Failed"
                /\ error' = "ZipError"
                /\ UNCHANGED <<extract_dir, pending>>
           ELSE IF ~unpacked.ok
           THEN /\ pc' = "Failed"
                /\ error' = "ExtractFailed"
                /\ UNCHANGED <<extract_dir, pending>>
           ELSE /\ extract_dir' = unpacked.fs.files
                /\ pending' = Pending(patch_data.modified_diffs, {}, {})
                /\ pc' = "Staged"
                /\ error' = ""
    /\ UNCHANGED <<generatorVars, exe_image, extracted, live, run_image, startVars, confirmed,
                   patch_data, content_bytes>>
    /\ PatchFrame

\* apply_patch: one iteration of the loop over modified_diffs
ApplyDiff ==
    /\ pc = "Staged"
    /\ pending.diffs # <<>>
    /\ live' = ApplyDiffToLive(live, Head(pending.diffs))
    /\ pending' = [pending EXCEPT !.diffs = Tail(@)]
    /\ UNCHANGED <<generatorVars, exe_image, extracted, run_image, startVars, confirmed,
                   patch_data, content_bytes, extract_dir, error, pc>>
    /\ PatchFrame

\* apply_patch: the diff loop is over; the staging directory is walked
DiffsDone ==
    /\ pc = "Staged"
    /\ pending.diffs = <<>>
    /\ pending' = [pending EXCEPT !.copies = DOMAIN extract_dir]
    /\ pc' = "Diffed"
    /\ UNCHANGED <<generatorVars, exe_image, extracted, live, run_image, startVars, confirmed,
                   patch_data, content_bytes, extract_dir, error>>
    /\ PatchFrame

\* apply_patch: a worker copies one extracted file into current_dir
CopyFile ==
    /\ pc = "Diffed"
    /\ \E rel_path \in pending.copies :
          /\ live' = IF RunningExe(rel_path) THEN live
                     ELSE CopyToLive(live, rel_path, extract_dir[rel_path])
          /\ pending' = [pending EXCEPT !.copies = @ \ {rel_path}]
    /\ UNCHANGED <<generatorVars, exe_image, extracted, run_image, startVars, confirmed,
                   patch_data, content_bytes, extract_dir, error, pc>>
    /\ PatchFrame

\* apply_patch: the parallel copy is over
CopiesDone ==
    /\ pc = "Diffed"
    /\ pending.copies = {}
    /\ pending' = [pending EXCEPT !.removals = SeqRange(patch_data.removed_files)]
    /\ pc' = "Copied"
    /\ UNCHANGED <<generatorVars, exe_image, extracted, live, run_image, startVars, confirmed,
                   patch_data, content_bytes, extract_dir, error>>
    /\ PatchFrame

\* apply_patch: a worker removes one of removed_files
RemoveOne ==
    /\ pc = "Copied"
    /\ \E path \in pending.removals :
          \E unlink_refused \in IF RunningExe(path) THEN BOOLEAN ELSE {FALSE} :
          /\ live' = IF unlink_refused THEN live ELSE RemoveFromLive(live, path)
          /\ pending' = [pending EXCEPT !.removals = @ \ {path}]
    /\ UNCHANGED <<generatorVars, exe_image, extracted, run_image, startVars, confirmed,
                   patch_data, content_bytes, extract_dir, error, pc>>
    /\ PatchFrame

\* apply_patch: the parallel removal is over
RemovalsDone ==
    /\ pc = "Copied"
    /\ pending.removals = {}
    /\ pc' = "Deleted"
    /\ UNCHANGED <<generatorVars, exe_image, extracted, live, run_image, startVars, confirmed,
                   patch_data, content_bytes, extract_dir, pending, error>>
    /\ PatchFrame

\* apply_patch: the summary is printed and Ok(()) returned
Report ==
    /\ pc = "Deleted"
    /\ pc' = "Done"
    /\ UNCHANGED <<generatorVars, exe_image, extracted, live, run_image, startVars, confirmed,
                   patch_data, content_bytes, extract_dir, pending, error>>
    /\ PatchFrame

Next ==
    \/ CompareDirectories
    \/ NoPatch
    \/ CreatePatch
    \/ CorruptTrailer
    \/ Decode
    \/ VerifyDirectory
    \/ Confirm
    \/ Stage
    \/ ApplyDiff
    \/ DiffsDone
    \/ CopyFile
    \/ CopiesDone
    \/ RemoveOne
    \/ RemovalsDone
    \/ Report

Spec == Init /\ [][Next]_vars

----------------------------------------------------------------------------
(* Properties of the generator and the applier                             *)

\* the directory the applier was started in, as it was at the start
InitialLive == [files |-> source_dir, dirs |-> DirsOf(source_dir)]

\* the (relative_path, content) pairs of a tree over the included paths
ScanPairs(tree) ==
    {<<path, tree[path]>> :
        path \in DOMAIN scan_directory(tree, args.exclude_extensions, args.exclude_dirs)}

\* the manifest written into the artifact
Manifest == from_slice(patch_data_file).patch_data

\* the paths the manifest lists as files to take from the archive
CopiedPaths(manifest) ==
    {info.relative_path : info \in SeqRange(manifest.added_files)}
        \cup {info.relative_path : info \in SeqRange(manifest.modified_files)}

DiffedFilePaths(manifest) ==
    {file_diff.relative_path : file_diff \in SeqRange(manifest.modified_diffs)}

\* every file create_patch had to stage is in the archive
NoStagingFault ==
    {entry.name : entry \in SeqRange(ArchiveEntries)} = CopiedPaths(Manifest)

\* C1: once apply_patch has returned Ok in a directory that was identical to
\* the source, with an artifact that create_patch built without any file
\* failing, the (relative_path, content) pairs of the directory over the
\* included paths are those of the target tree.
PatchCorrectness ==
    (pc = "Done" /\ NoStagingFault) => ScanPairs(live.files) = ScanPairs(target_dir)

\* the path a Change is about
ChangePath(change) ==
    IF change.type = "Removed" THEN change.path
    ELSE IF change.type = "ModifiedDiff" THEN change.file_diff.relative_path
    ELSE change.file_info.relative_path

Compared == gpc \in {"compared", "created", "exit"}

\* C4: compare_directories emits at most one Change per path, none for a
\* path outside the two scans, Added for a target-only path, Removed for a
\* source-only path, nothing for a path in both with equal hashes, and for a
\* path in both with different hashes ModifiedDiff when use_diff_patches is
\* set and both files are text, Modified with the target entry otherwise.
ClassificationComplete ==
    Compared =>
        LET source_files == scan_directory(source_dir, args.exclude_extensions,
                                           args.exclude_dirs)
            target_files == scan_directory(target_dir, args.exclude_extensions,
                                           args.exclude_dirs)
            ChangesOf(path) == {i \in 1..Len(diffs) : ChangePath(diffs[i]) = path}
            text(path) == source_dir[path].utf8 /\ target_dir[path].utf8
        IN  /\ \A i \in 1..Len(diffs) :
                  ChangePath(diffs[i]) \in DOMAIN source_files \cup DOMAIN target_files
            /\ \A path \in DOMAIN source_files \cup DOMAIN target_files :
                  /\ Cardinality(ChangesOf(path)) <= 1
                  /\ \A i \in ChangesOf(path) :
                        IF path \notin DOMAIN source_files
                        THEN diffs[i] = Added(target_files[path])
                        ELSE IF path \notin DOMAIN target_files
                        THEN diffs[i] = Removed(path)
                        ELSE IF args.use_diff_patches /\ text(path)
                        THEN /\ diffs[i].type = "ModifiedDiff"
                             /\ diffs[i].file_diff.original_hash = source_files[path].hash
                             /\ diffs[i].file_diff.hash = target_files[path].hash
                        ELSE diffs[i] = Modified(target_files[path])
                  /\ (ChangesOf(path) = {}) <=>
                        /\ path \in DOMAIN source_files \cap DOMAIN target_files
                        /\ source_files[path].hash = target_files[path].hash

\* a comparison that found an added, a removed, a diffed and an unchanged path
ClassificationWitness ==
    /\ gpc = "compared"
    /\ \E i, j, k \in 1..Len(diffs) :
          /\ diffs[i].type = "Added"
          /\ diffs[j].type = "Removed"
          /\ diffs[k].type \in {"Modified", "ModifiedDiff"}

\* C5: when the decoded check_files is not empty and one of its paths is
\* missing under current_dir, apply_patch ends with the directory
\* verification error and current_dir is as it was at the start.
DirectoryAuthentication ==
    (/\ pc \notin {"Init", "Decoded"}
     /\ extracted.status = "Ok"
     /\ patch_data.check_files # <<>>
     /\ \E i \in 1..Len(patch_data.check_files) :
           ~Exists(InitialLive, patch_data.check_files[i]))
    => (pc = "Failed" /\ error = "DirectoryVerificationFailed" /\ live = InitialLive)

\* an artifact with changes to apply was refused for a missing check file
DirectoryAuthenticationWitness ==
    /\ pc = "Failed"
    /\ error = "DirectoryVerificationFailed"
    /\ patch_data.check_files # <<>>
    /\ CopiedPaths(patch_data) # {}
    /\ ~Exists(live, patch_data.check_files[1])

\* C8: run from an image of at least 25 bytes that does not end in
\* PATCH_END, the decoder fails with the missing-end-marker error without
\* reading the length fields or the payload, and apply_patch leaves
\* current_dir as it was.
MissingMarkerRejected ==
    (pc # "Init" /\ Len(run_image) >= 25 /\ ~EndsInMarker(run_image)) =>
        /\ extracted.status = "MissingEndMarker"
        /\ ~extracted.read_sizes
        /\ extracted.offset = None
        /\ extracted.patch_data_bytes = <<>>
        /\ extracted.content_bytes = <<>>
        /\ pc = "Failed"
        /\ error = "MissingEndMarker"
        /\ live = InitialLive

\* an artifact whose marker was damaged has been run
MissingMarkerWitness ==
    /\ pc = "Failed"
    /\ gpc = "created"
    /\ run_image = exe_image
    /\ Len(run_image) > 25
    /\ ~EndsInMarker(run_image)
    /\ error = "MissingEndMarker"

\* C9: in an artifact of create_patch, every path of added_files,
\* modified_files and modified_diffs has an entry of that name in the
\* embedded archive with the bytes of the target tree's file.
ArchiveContent ==
    gpc = "created" =>
        \A path \in CopiedPaths(Manifest) \cup DiffedFilePaths(Manifest) :
            \E i \in 1..Len(ArchiveEntries) :
                /\ ArchiveEntries[i].name = path
                /\ ArchiveEntries[i].data = target_dir[path]

----------------------------------------------------------------------------
(* ScanSpec: the scanner's filter over hidden names, extensions and        *)
(* excluded directories                                                    *)

\* most files in a scanned tree
MaxScanFiles == 2

NameH == <<".", "h">>
NameL == <<"l">>
NameFF == <<"f", "f">>

\* x.l, f/x.l, f/g, .h/g, g/.h, g/f, l, ff/g
ScanPathSet ==
    {<<NameXL>>, <<NameF, NameXL>>, <<NameF, NameG>>, <<NameH, NameG>>, <<NameG, NameH>>,
     <<NameG, NameF>>, <<NameL>>, <<NameFF, NameG>>}

ScanContentSet == {Text(<<"a">>, FALSE), Text(<<"b">>, FALSE)}

\* the trees of at most MaxScanFiles files, all of one content
ScanTrees(contents) ==
    {t \in UNION {[D -> {c}] : D \in {D \in SUBSET ScanPathSet :
                                           Cardinality(D) <= MaxScanFiles},
                                c \in contents} :
        IsTree(t)}

ScanInit ==
    /\ source_dir \in ScanTrees({Text(<<"a">>, FALSE)})
    /\ target_dir \in ScanTrees(ScanContentSet)
    /\ args \in {Args(e, d, u, <<>>) :
                    e \in {NoList, SomeList(<<NameL>>), SomeList(<<<<".", "l">>>>)},
                    d \in {NoList, SomeList(<<NameF>>)},
                    u \in BOOLEAN}
    /\ diffs = <<>>
    /\ gpc = "start"
    /\ live = <<>>
    /\ run_image = <<>>
    /\ exe_path = <<>>
    /\ mode = "idle"
    /\ cli = <<>>
    /\ confirmed = "unasked"
    /\ patch_data = <<>>
    /\ content_bytes = <<>>
    /\ extract_dir = <<>>
    /\ pending = <<>>
    /\ error = ""
    /\ pc = "idle"
    /\ EnvIdle
    /\ DiffIdle
    /\ ZipIdle

ScanNext == CompareDirectories

ScanSpec == ScanInit /\ [][ScanNext]_vars

\* the extensions of a file name: what follows its last '.', when the name
\* has one that is not its first character
ExtensionsOf(name) ==
    {SubSeq(name, k + 1, Len(name)) :
        k \in {k \in 2..Len(name) :
                  name[k] = "." /\ \A j \in (k + 1)..Len(name) : name[j] # "."}}

\* the inclusion rule of the scanner, clause by clause
IncludedByRule(path) ==
    /\ \A k \in 1..Len(path) : path[k][1] # "."
    /\ args.exclude_extensions.some =>
          \A ext \in ExtensionsOf(Last(path)) :
              \A i \in 1..Len(args.exclude_extensions.list) :
                  /\ args.exclude_extensions.list[i] # ext
                  /\ args.exclude_extensions.list[i] # <<".">> \o ext
    /\ args.exclude_dirs.some =>
          \A k \in 1..(Len(path) - 1) :
              \A i \in 1..Len(args.exclude_dirs.list) : args.exclude_dirs.list[i] # path[k]

\* C10: a file of a tree is in scan_directory's result if and only if no
\* component of its path starts with '.', its extension matches no entry of
\* exclude_extensions with or without the dot, and no directory above it
\* bears a name listed in exclude_dirs; no Change of compare_directories is
\* about a path the rule excludes.
ScannerInclusion ==
    /\ \A tree \in {source_dir, target_dir} :
          LET files == scan_directory(tree, args.exclude_extensions, args.exclude_dirs)
          IN  /\ DOMAIN files \subseteq DOMAIN tree
              /\ \A path \in DOMAIN tree : (path \in DOMAIN files) <=> IncludedByRule(path)
    /\ \A i \in 1..Len(diffs) : IncludedByRule(ChangePath(diffs[i]))

\* trees with a file the extension rule drops, a file under an excluded
\* directory and a file that merely bears the excluded directory's name have
\* been compared
ScannerInclusionWitness ==
    /\ gpc = "compared"
    /\ args.exclude_extensions.some
    /\ args.exclude_dirs.some
    /\ <<NameXL>> \in DOMAIN target_dir
    /\ <<NameF, NameG>> \in DOMAIN source_dir
    /\ <<NameG, NameF>> \in DOMAIN source_dir
    /\ \E i \in 1..Len(diffs) : ChangePath(diffs[i]) = <<NameG, NameF>>
    /\ \A i \in 1..Len(diffs) : ChangePath(diffs[i]) # <<NameXL>>

----------------------------------------------------------------------------
(* Properties of the start of the program and of the applier's prompt      *)

\* C11: a started process is in applier mode if and only if its image is at
\* least 9 bytes long and ends in "PATCH_END", and otherwise parses its
\* command line as the generator; the artifact create_patch writes ends in
\* PATCH_END.
SelfRecognition ==
    /\ [](pc # "Init" =>
            /\ mode = "Applier" <=> EndsInMarker(run_image)
            /\ mode = "Generator" <=> ~EndsInMarker(run_image)
            /\ mode = "Generator" <=> cli.command # "none")
    /\ [][(gpc = "compared" /\ gpc' = "created") => EndsInMarker(exe_image')]_vars

\* an artifact of create_patch has been started and is in applier mode
SelfRecognitionWitness ==
    /\ gpc = "created"
    /\ pc = "Decoded"
    /\ run_image = exe_image
    /\ mode = "Applier"

\* C12: with an empty check_files, current_dir is as it was at the start
\* until the user has answered yes; after a no, apply_patch has returned
\* and current_dir is as it was.
ConfirmationGate ==
    (pc # "Init" /\ extracted.status = "Ok" /\ patch_data.check_files = <<>>) =>
        /\ confirmed = "unasked" => (pc = "Decoded" /\ live = InitialLive)
        /\ confirmed = "no" => (pc = "Declined" /\ error = "" /\ live = InitialLive)

\* the user declined a patch that had files to copy and files to remove
ConfirmationGateWitness ==
    /\ pc = "Declined"
    /\ confirmed = "no"
    /\ patch_data.check_files = <<>>
    /\ CopiedPaths(patch_data) # {}
    /\ patch_data.removed_files # <<>>

IdenticalScans ==
    scan_directory(source_dir, args.exclude_extensions, args.exclude_dirs)
        = scan_directory(target_dir, args.exclude_extensions, args.exclude_dirs)

\* C13 as stated: for identical scans the Change set is empty, an envelope
\* is built for it with an empty archive, and applying it changes nothing.
IdentityPatchEnvelope ==
    (IdenticalScans /\ gpc \in {"exit", "created"}) =>
        /\ diffs = <<>>
        /\ gpc = "created"
        /\ EndsInMarker(exe_image)
        /\ ArchiveEntries = <<>>
        /\ live.files = source_dir

\* C13: for identical scans the Change set is empty and the create command
\* ends without writing an artifact; nothing can be applied and the
\* directory stays as it was.
IdentityNoPatch ==
    (IdenticalScans /\ Compared) =>
        /\ diffs = <<>>
        /\ gpc # "created"
        /\ exe_image = <<>>
        /\ zip_file = <<>>
        /\ pc \in {"Init", "Failed"}
        /\ live = InitialLive

\* two identical trees that are not empty have been compared and the
\* create command has ended
IdentityNoPatchWitness ==
    /\ gpc = "exit"
    /\ IdenticalScans
    /\ DOMAIN scan_directory(source_dir, args.exclude_extensions, args.exclude_dirs) # {}
    /\ diffs = <<>>

\* C15: the generator started with apply --patch-data FILE, FILE a valid
\* patch, decodes FILE and goes on to apply its manifest.
ApplyCommandDecodesFile ==
    (/\ pc # "Init"
     /\ mode = "Generator"
     /\ cli.command = "apply"
     /\ extract_patch_data_from_exe(cli.patch_data, TRUE).status = "Ok") =>
        /\ extracted.status = "Ok"
        /\ extracted.patch_data = extract_patch_data_from_exe(cli.patch_data, TRUE).patch_data
        /\ pc # "Failed"

----------------------------------------------------------------------------
(* ApplierSpec: apply_patch on any manifest and archive. The artifact is   *)
(* a file that may have been built by anything: its manifest and its       *)
(* archive are arbitrary, and it may lie in the directory it is run in.    *)

\* most entries in a generated archive
MaxArchiveEntries == 2
\* most FileDiffs in a generated manifest
MaxFileDiffs == 1
\* most paths in a generated removed_files
MaxRemoved == 1

\* f, f/g, g
ApplierPathSet == {<<NameF>>, <<NameF, NameG>>, <<NameG>>}

\* the directories the applier is run in: f and f/g are text files, g is a
\* binary file
ApplierTrees ==
    {t \in TreesOver(ApplierPathSet, {Text(<<"a">>, FALSE), Binary("x")}) :
        \A path \in DOMAIN t : IsText(t[path]) <=> path # <<NameG>>}

\* the paths a generated removed_files names: f, g
ManifestPathSet == {<<NameF>>, <<NameG>>}

\* an entry name that leaves the staging directory: ../g
EscapingName == <<<<".", ".">>, NameG>>

\* a FileDiff that inserts the line "c" in front of the file at the path;
\* the manifests name the path f in modified_diffs
CraftedFileDiff(path) ==
    [relative_path |-> path,
     hash |-> calculate_file_hash(Text(<<"c", "a">>, FALSE)),
     original_hash |-> calculate_file_hash(Text(<<"a">>, FALSE)),
     changes |-> <<DiffChange("Insert", Text(<<"c">>, FALSE), None, Some(0, 1))>>]

\* the manifests of an artifact; the applier reads check_files,
\* modified_diffs and removed_files only
CraftedManifests ==
    {PatchData(check_files, <<>>, <<>>, file_diffs, removed_files) :
        check_files \in {<<>>, <<<<NameF>>>>},
        file_diffs \in SeqsUpTo({CraftedFileDiff(<<NameF>>)},
                                MaxFileDiffs),
        removed_files \in SeqsUpTo(ManifestPathSet, MaxRemoved)}

\* the archive bytes of an artifact: archives of any entries with distinct
\* names, and bytes that are no archive
CraftedArchives ==
    {entries \o <<ZipEnd(Len(entries))>> :
        entries \in {es \in SeqsUpTo({ZipEntry(name, Text(<<"z">>, FALSE)) :
                                         name \in ApplierPathSet \cup {EscapingName}},
                                     MaxArchiveEntries) :
                        \A i, j \in 1..Len(es) : es[i].name = es[j].name => i = j}}
        \cup {<<>>, <<Byte(1)>>}

\* An artifact lies ready and no process is started. When the artifact lies
\* in current_dir it is the file g of the directory.
ApplierInit ==
    /\ source_dir \in ApplierTrees
    /\ target_dir = <<>>
    /\ args = <<>>
    /\ diffs = <<>>
    /\ gpc = "created"
    /\ live = [files |-> source_dir, dirs |-> DirsOf(source_dir)]
    /\ exe_path \in {<<>>} \cup {path \in {<<NameG>>} \cap DOMAIN source_dir :
                                   ~source_dir[path].utf8}
    /\ ApplierAtRest
    /\ current_exe_image = GeneratorImage
    /\ \E manifest \in CraftedManifests, archive \in CraftedArchives :
          /\ patch_data_file = to_string_pretty(manifest)
          /\ zip_file = archive
          /\ exe_image = append_data_to_exe(GeneratorImage, to_string_pretty(manifest),
                                            archive)
    /\ extracted = [status |-> "NotRun"]
    /\ epc = "idle"
    /\ DiffIdle
    /\ ZipIdle

ApplierNext ==
    \/ Decode
    \/ VerifyDirectory
    \/ Confirm
    \/ Stage
    \/ ApplyDiff
    \/ DiffsDone
    \/ CopyFile
    \/ CopiesDone
    \/ RemoveOne
    \/ RemovalsDone
    \/ Report

ApplierSpec == ApplierInit /\ [][ApplierNext]_vars

\* every step of apply_patch that can be taken is taken: the process runs
\* and the worker pool serves every file given to it
ApplierFairSpec == ApplierSpec /\ WF_vars(ApplierNext)

\* C14: the applier never modifies its own executable image: wherever the
\* running artifact lies, current_dir included, and whatever manifest and
\* archive it carries, the file it runs from stays in place with the
\* content it had when the process was started.
OwnImageUntouched ==
    exe_path # <<>> =>
        /\ exe_path \in DOMAIN live.files
        /\ live.files[exe_path] = source_dir[exe_path]

\* the copy phase can write the path: it is not the running executable, it
\* is no directory of current_dir and no file of current_dir stands where
\* one of its parent directories should be
CopyCanWrite(path) ==
    /\ ~RunningExe(path)
    /\ path \notin InitialLive.dirs
    /\ \A parent \in Prefixes(Front(path)) : parent \notin DOMAIN source_dir

\* the paths of the decoded manifest's removed_files
RemovedPaths == SeqRange(patch_data.removed_files)

\* the diff loop is over when the copies start, the copies are over when
\* the removals start, and the removals are over at the summary
PhasesComplete ==
    /\ pc \in {"Diffed", "Copied", "Deleted", "Done"} => pending.diffs = <<>>
    /\ pc \in {"Copied", "Deleted", "Done"} => pending.copies = {}
    /\ pc \in {"Deleted", "Done"} => pending.removals = {}

\* a step that changes current_dir is a diff write in the diff phase, a copy
\* in the copy phase or a removal in the removal phase
PhaseWrite ==
    live' # live =>
        \/ pc = "Staged" /\ pc' = "Staged" /\ pending.diffs # <<>>
              /\ pending'.diffs = Tail(pending.diffs)
        \/ pc = "Diffed" /\ pc' = "Diffed"
              /\ \E rel_path \in pending.copies :
                    pending'.copies = pending.copies \ {rel_path}
        \/ pc = "Copied" /\ pc' = "Copied"
              /\ \E path \in pending.removals :
                    pending'.removals = pending.removals \ {path}

StageSteps ==
    {<<"Init", "Decoded">>, <<"Decoded", "Authenticated">>,
     <<"Authenticated", "Staged">>, <<"Staged", "Diffed">>, <<"Diffed", "Copied">>,
     <<"Copied", "Deleted">>, <<"Deleted", "Done">>,
     <<"Init", "Failed">>, <<"Decoded", "Failed">>, <<"Authenticated", "Failed">>,
     <<"Decoded", "Declined">>}

\* the stages that follow staging
AfterStaging == {"Staged", "Diffed", "Copied", "Deleted", "Done"}

\* the archive was read and each of its entries with an enclosed name was
\* extracted
StagedWhole ==
    /\ ZipArchiveNew(content_bytes).ok
    /\ \A entry \in SeqRange(ZipArchiveNew(content_bytes).entries) :
          enclosed_name(entry.name).some =>
              /\ entry.name \in DOMAIN extract_dir
              /\ \E other \in SeqRange(ZipArchiveNew(content_bytes).entries) :
                    other.name = entry.name /\ extract_dir[entry.name] = other.data

\* C17: apply_patch goes through Init, Decoded, Authenticated, Staged,
\* Diffed, Copied, Deleted, Done in this order, one stage at a time. A run
\* that fails in decoding, authentication or staging has ended: it takes no
\* further step and has changed nothing in current_dir, and a run is in a
\* stage after staging only if the directory was authenticated and the whole
\* archive extracted. A run that has staged reaches Done whatever happens
\* to the single files it diffs, copies and removes.
FailurePolicy ==
    /\ [][pc' # pc => <<pc, pc'>> \in StageSteps]_vars
    /\ [][pc \notin {"Failed", "Declined", "Done"}]_vars
    /\ [](pc \notin AfterStaging => live = InitialLive)
    /\ [](pc \in AfterStaging =>
            /\ error = ""
            /\ verify_directory(patch_data.check_files, InitialLive)
            /\ StagedWhole)
    /\ (pc = "Staged" ~> pc = "Done")

\* a run has reached Done although the copy of one file failed, and has
\* copied another file; and the removal of a path did nothing
FailurePolicyWitness ==
    /\ pc = "Done"
    /\ \E failed \in DOMAIN extract_dir, copied \in DOMAIN extract_dir :
          /\ ~CopyCanWrite(failed)
          /\ failed \notin DOMAIN live.files \/ live.files[failed] # extract_dir[failed]
          /\ copied \in DOMAIN live.files
          /\ copied \notin DOMAIN source_dir
          /\ live.files[copied] = extract_dir[copied]
    /\ \E path \in RemovedPaths : ~Exists(InitialLive, path)

\* C18: once apply_patch has finished in a directory that was identical to
\* the source, every file extracted to the staging directory is a regular
\* file of the directory, at the same relative path and with the same
\* content, also when the path is a file in one tree and a directory in the
\* other.
BulkCopyComplete ==
    pc = "Done" =>
        \A rel_path \in DOMAIN extract_dir :
            /\ rel_path \in DOMAIN live.files
            /\ live.files[rel_path] = extract_dir[rel_path]

\* C19: for every text pair, a change that calculate_file_diff pushes as
\* Replace covers a range in which the two texts differ: the lines of the
\* source in its old_range, with their terminators, are not the lines of
\* the target in its new_range (so "a\nb" against "a\n" and another last
\* line gives one Replace for the last line and nothing for the first).
EditScriptShape ==
    dpc # "diff" =>
        \A i \in 1..Len(changes) :
            changes[i].tag = "Replace" =>
                SkipTake(Tokens(source_content), changes[i].old_range[1],
                         changes[i].old_range[2])
                    # SkipTake(Tokens(target_content), changes[i].new_range[1],
                               changes[i].new_range[2])

----------------------------------------------------------------------------
(* ZipSpec: create_zip_archive with its worker threads. zip holds the      *)
(* files of the content directory, the files no worker has taken yet, the  *)
(* position and the buffer of every worker, the holders of the two         *)
(* mutexes, the collector, the progress counter, and the entries written   *)
(* to the archive by the calling thread.                                   *)

\* most files in the content directory
MaxZipFiles == 2
\* most threads in the pool
MaxWorkers == 2

ZipPathSet == {<<NameF>>, <<NameG>>, <<NameXL>>}

ZipContentSet == {Text(<<"a">>, FALSE), Binary("x")}

\* no thread holds the mutex
Unlocked == 0

WorkerIdle == [pc |-> "idle", path |-> <<>>, buffer |-> Text(<<>>, FALSE)]

install_returns_at_once(workers, queue) == TRUE

\* pool.install returns when for_each has run its closure for every file
install_returns(workers, queue) ==
    queue = {} /\ \A w \in DOMAIN workers : workers[w].pc = "idle"

ZipInit ==
    /\ \E files \in TreesOver(ZipPathSet, ZipContentSet), threads \in 1..MaxWorkers :
          /\ Cardinality(DOMAIN files) <= MaxZipFiles
          /\ \E unreadable \in SUBSET DOMAIN files :
                zip = [files |-> files,
                       unreadable |-> unreadable,
                       queue |-> DOMAIN files,
                       workers |-> [w \in 1..threads |-> WorkerIdle],
                       file_contents_lock |-> Unlocked,
                       progress_counter_lock |-> Unlocked,
                       file_contents |-> <<>>,
                       progress_counter |-> 0,
                       archive |-> <<>>,
                       main |-> "install"]
    /\ DiffIdle
    /\ EnvIdle
    /\ PatchIdle

ZipFrame == UNCHANGED <<diffVars, envVars, patchVars>>

\* a worker runs the closure for one file: the file is read into the buffer;
\* a file that cannot be read is left out
ReadFile(w) ==
    /\ zip.main = "install"
    /\ zip.workers[w].pc = "idle"
    /\ \E path \in zip.queue :
          zip' = [zip EXCEPT
                    !.queue = @ \ {path},
                    !.workers[w] = IF path \in zip.unreadable THEN WorkerIdle
                                   ELSE [pc |-> "lock_contents", path |-> path,
                                         buffer |-> zip.files[path]]]
    /\ ZipFrame

\* file_contents.lock()
LockContents(w) ==
    /\ zip.workers[w].pc = "lock_contents"
    /\ zip.file_contents_lock = Unlocked
    /\ zip' = [zip EXCEPT !.file_contents_lock = w, !.workers[w].pc = "push"]
    /\ ZipFrame

\* contents.push((relative_path, buffer))
PushContents(w) ==
    /\ zip.workers[w].pc = "push"
    /\ zip' = [zip EXCEPT
                 !.file_contents = Append(@, <<zip.workers[w].path, zip.workers[w].buffer>>),
                 !.workers[w].pc = "lock_counter"]
    /\ ZipFrame

\* progress_counter.lock(), with the collector still locked
LockCounter(w) ==
    /\ zip.workers[w].pc = "lock_counter"
    /\ zip.progress_counter_lock = Unlocked
    /\ zip' = [zip EXCEPT !.progress_counter_lock = w, !.workers[w].pc = "count"]
    /\ ZipFrame

\* *counter += 1
Count(w) ==
    /\ zip.workers[w].pc = "count"
    /\ zip' = [zip EXCEPT !.progress_counter = @ + 1, !.workers[w].pc = "unlock"]
    /\ ZipFrame

\* the end of the block drops the two guards
Unlock(w) ==
    /\ zip.workers[w].pc = "unlock"
    /\ zip' = [zip EXCEPT !.progress_counter_lock = Unlocked,
                          !.file_contents_lock = Unlocked,
                          !.workers[w] = WorkerIdle]
    /\ ZipFrame

\* pool.install returns and the calling thread takes the collector
InstallReturns ==
    /\ zip.main = "install"
    /\ install_returns(zip.workers, zip.queue)
    /\ zip' = [zip EXCEPT !.main = "write"]
    /\ ZipFrame

\* one iteration of the loop that writes the collected files
WriteEntry ==
    /\ zip.main = "write"
    /\ Len(zip.archive) < Len(zip.file_contents)
    /\ LET next == zip.file_contents[Len(zip.archive) + 1]
       IN  zip' = [zip EXCEPT !.archive = Append(@, ZipEntry(next[1], next[2]))]
    /\ ZipFrame

\* zip.finish()
FinishArchive ==
    /\ zip.main = "write"
    /\ Len(zip.archive) = Len(zip.file_contents)
    /\ zip' = [zip EXCEPT !.archive = Append(@, ZipEnd(Len(zip.archive))),
                          !.main = "finished"]
    /\ ZipFrame

ZipNext ==
    \/ \E w \in DOMAIN zip.workers : ReadFile(w)
    \/ \E w \in DOMAIN zip.workers : LockContents(w)
    \/ \E w \in DOMAIN zip.workers : PushContents(w)
    \/ \E w \in DOMAIN zip.workers : LockCounter(w)
    \/ \E w \in DOMAIN zip.workers : Count(w)
    \/ \E w \in DOMAIN zip.workers : Unlock(w)
    \/ InstallReturns
    \/ WriteEntry
    \/ FinishArchive

ZipSpec == ZipInit /\ [][ZipNext]_vars

\* how many times the path is in the collector
Pushes(path) ==
    Cardinality({i \in 1..Len(zip.file_contents) : zip.file_contents[i][1] = path})

\* the files a worker has read
ReadFiles == DOMAIN zip.files \ (zip.unreadable \cup zip.queue)

\* the worker has read the path and not pushed it yet
AboutToPush(path) ==
    \E w \in DOMAIN zip.workers :
        zip.workers[w].path = path /\ zip.workers[w].pc \in {"lock_contents", "push"}

\* the entries of the archive
Written == {zip.archive[i] : i \in {j \in 1..Len(zip.archive) : IsZipEntry(zip.archive[j])}}

\* C20: with any number of workers and in every interleaving, a file that
\* was read is in the collector exactly once as soon as its worker has
\* pushed it; the archive is written only once every worker has finished,
\* by the calling thread; the finished archive has exactly one entry for
\* each collected file, with the bytes of the file; and as long as the
\* archive is not finished some thread can take a step: locking the
\* collector and then the counter never deadlocks.
ArchiveAssembly ==
    /\ \A path \in DOMAIN zip.files :
          Pushes(path) = IF path \in ReadFiles /\ ~AboutToPush(path) THEN 1 ELSE 0
    /\ zip.archive # <<>> =>
          /\ zip.main \in {"write", "finished"}
          /\ \A w \in DOMAIN zip.workers : zip.workers[w] = WorkerIdle
          /\ zip.queue = {}
    /\ zip.main = "finished" =>
          /\ Len(zip.archive) = Cardinality(ReadFiles) + 1
          /\ Written = {ZipEntry(path, zip.files[path]) : path \in ReadFiles}
          /\ Last(zip.archive) = ZipEnd(Cardinality(ReadFiles))
    /\ zip.main # "finished" => ENABLED ZipNext

\* two workers have read and pushed a file each, and the archive is finished
\* with the two entries
ArchiveAssemblyWitness ==
    /\ zip.main = "finished"
    /\ Len(zip.archive) = 3
    /\ Cardinality(DOMAIN zip.workers) = 2
    /\ zip.unreadable = {}

----------------------------------------------------------------------------
(* The binding of a FileDiff, path confinement, the diff loop's bounds,    *)
(* re-application and the manifest                                         *)

\* C21: in the diff stage apply_patch changes a file through a FileDiff only
\* if the content of the file hashes to the original_hash of the FileDiff,
\* and the content it writes hashes to the hash of the FileDiff.
FileDiffBound ==
    [][(pc = "Staged" /\ pending.diffs # <<>> /\ live' # live) =>
          LET file_diff == Head(pending.diffs)
          IN  /\ calculate_file_hash(live.files[file_diff.relative_path])
                    = file_diff.original_hash
              /\ calculate_file_hash(live'.files[file_diff.relative_path])
                    = file_diff.hash]_vars

\* an absolute path: /g. current_dir.join of it is the path itself
AbsoluteName == <<<<"/">>, NameG>>

\* the path leads out of the directory it is joined to
Outside(path) == path # <<>> /\ path[1] \in {<<".", ".">>, <<"/">>}

\* the paths of the files at the start: f in current_dir, ../g and /g
\* outside of it, each named as apply_patch reaches it from current_dir
ConfinementPathSet == {<<NameF>>, EscapingName, AbsoluteName}

\* An artifact lies ready whose manifest and archive name paths in and out
\* of current_dir. source_dir and live hold the files in reach at the start.
ConfinementInit ==
    /\ source_dir \in TreesOver(ConfinementPathSet, {Text(<<"a">>, FALSE)})
    /\ target_dir = <<>>
    /\ args = <<>>
    /\ diffs = <<>>
    /\ gpc = "created"
    /\ live = [files |-> source_dir, dirs |-> DirsOf(source_dir)]
    /\ exe_path = <<>>
    /\ ApplierAtRest
    /\ current_exe_image = GeneratorImage
    /\ \E check_files \in {<<>>, <<<<NameF>>>>},
          file_diffs \in SeqsUpTo({CraftedFileDiff(path) : path \in ConfinementPathSet},
                                  MaxFileDiffs),
          removed_files \in SeqsUpTo(ConfinementPathSet, MaxRemoved),
          entries \in SeqsUpTo({ZipEntry(name, Text(<<"z">>, FALSE)) :
                                   name \in ConfinementPathSet}, MaxArchiveEntries) :
          LET manifest == PatchData(check_files, <<>>, <<>>, file_diffs, removed_files)
              archive == entries \o <<ZipEnd(Len(entries))>>
          IN  /\ patch_data_file = to_string_pretty(manifest)
              /\ zip_file = archive
              /\ exe_image = append_data_to_exe(GeneratorImage,
                                                to_string_pretty(manifest), archive)
    /\ extracted = [status |-> "NotRun"]
    /\ epc = "idle"
    /\ DiffIdle
    /\ ZipIdle

ConfinementSpec == ConfinementInit /\ [][ApplierNext]_vars

\* C22: whatever paths the manifest and the archive name, apply_patch
\* creates, rewrites and deletes no file outside current_dir: the files
\* outside are those of the start, with their content; and it extracts no
\* file outside the staging directory.
PathConfinement ==
    /\ \A path \in DOMAIN source_dir \cup DOMAIN live.files :
          Outside(path) =>
              /\ path \in DOMAIN source_dir
              /\ path \in DOMAIN live.files
              /\ live.files[path] = source_dir[path]
    /\ \A path \in DOMAIN extract_dir : ~Outside(path)

----------------------------------------------------------------------------
(* OpsSpec: the diff loop of apply_patch on any list of changes, as a      *)
(* manifest of any origin may hold it                                      *)

\* most changes in a list
MaxOps == 2

\* a start behind the end of every file
BeyondEnd == MaxLines + 1

\* changes with ranges inside the file, across its end and behind it, with
\* and without the range their tag reads
OpSet ==
    {DiffChange("Delete", Text(<<"a">>, FALSE), Some(0, 1), None),
     DiffChange("Delete", Text(<<"a">>, FALSE), Some(1, BeyondEnd), None),
     DiffChange("Delete", Text(<<"a">>, FALSE), Some(BeyondEnd, 1), None),
     DiffChange("Delete", Text(<<"a">>, FALSE), None, Some(0, 1)),
     DiffChange("Insert", Text(<<"c", "d">>, FALSE), None, Some(0, 2)),
     DiffChange("Insert", Text(<<"c">>, FALSE), Some(0, 1), Some(1, 1)),
     DiffChange("Insert", Text(<<"c">>, FALSE), None, Some(BeyondEnd, 1)),
     DiffChange("Insert", Text(<<"c">>, FALSE), Some(0, 1), None),
     DiffChange("Replace", Text(<<"c", "d">>, FALSE), Some(0, 2), Some(0, 2)),
     DiffChange("Replace", Text(<<"c", "d">>, FALSE), Some(0, BeyondEnd), Some(1, 2)),
     DiffChange("Replace", Text(<<"c">>, FALSE), Some(BeyondEnd, 1), Some(1, 1)),
     DiffChange("Replace", Text(<<"c">>, FALSE), None, Some(BeyondEnd, 1)),
     DiffChange("Replace", Text(<<"c">>, FALSE), Some(1, 1), None),
     DiffChange("Equal", Text(<<"a">>, FALSE), Some(0, 1), Some(0, 1))}

\* a text file is about to be read in the diff loop, for a FileDiff with
\* any changes
OpsInit ==
    /\ source_content \in {Text(body, FALSE) : body \in SeqsUpTo({"a", "b"}, MaxLines)}
    /\ target_content = Text(<<>>, FALSE)
    /\ changes \in SeqsUpTo(OpSet, MaxOps)
    /\ sorted_changes = <<>>
    /\ lines = <<>>
    /\ new_content = Text(<<>>, FALSE)
    /\ dpc = "read"
    /\ EnvIdle
    /\ PatchIdle
    /\ ZipIdle

OpsNext == ReadAndSort \/ ApplyNextChange \/ WriteBack

OpsSpec == OpsInit /\ [][OpsNext]_vars

\* the lines without those of the range, cut at the end of the file
WithoutRange(ls, range) ==
    IF range = None \/ range[1] >= Len(ls) THEN ls
    ELSE [k \in 1..(Len(ls) - (Min(range[1] + range[2], Len(ls)) - range[1])) |->
             IF k <= range[1] THEN ls[k]
             ELSE ls[k + (Min(range[1] + range[2], Len(ls)) - range[1])]]

\* the lines with the new lines put in at the start of the range
WithLines(ls, range, new_lines) ==
    IF range = None \/ range[1] > Len(ls) THEN ls
    ELSE [k \in 1..(Len(ls) + Len(new_lines)) |->
             IF k <= range[1] THEN ls[k]
             ELSE IF k <= range[1] + Len(new_lines) THEN new_lines[k - range[1]]
             ELSE ls[k - Len(new_lines)]]

\* what the change makes of the lines
Applied(ls, change) ==
    CASE change.tag = "Delete" -> WithoutRange(ls, change.old_range)
      [] change.tag = "Insert" -> WithLines(ls, change.new_range, StrLines(change.content))
      [] change.tag = "Replace" ->
            WithLines(WithoutRange(ls, change.old_range), change.new_range,
                      StrLines(change.content))
      [] change.tag = "Equal" -> ls

\* C23: for every line sequence and every list of changes, each iteration
\* of the loop stays inside the line vector: a Delete or Replace removes the
\* lines of its old range that exist and nothing when its start is not
\* below the length, an Insert or Replace puts its lines in at its new
\* start and nothing when the start is above the length, a change without
\* the range is skipped. Each iteration takes one change off the list, and
\* the loop goes on until the list is empty and the file is written.
DiffLoopTotal ==
    /\ [][(dpc = "apply" /\ sorted_changes # <<>>) =>
             /\ lines' = Applied(lines, Head(sorted_changes))
             /\ sorted_changes' = Tail(sorted_changes)
             /\ dpc' = "apply"]_vars
    /\ [][(dpc = "apply" /\ sorted_changes = <<>>) => dpc' = "done"]_vars
    /\ [](dpc = "apply" => ENABLED OpsNext)
    /\ [](Len(sorted_changes) <= Len(changes))

\* the loop has ended after a Delete behind the end of the file, which
\* removed nothing, and a change across the end of the file
DiffLoopTotalWitness ==
    /\ dpc = "done"
    /\ Len(changes) = 2
    /\ \E i \in 1..2 :
          /\ changes[i].tag = "Delete"
          /\ changes[i].old_range # None
          /\ changes[i].old_range[1] >= Len(StrLines(source_content))
    /\ \E i \in 1..2 :
          /\ changes[i].tag = "Replace"
          /\ changes[i].old_range # None
          /\ changes[i].old_range[1] < Len(StrLines(source_content))
          /\ changes[i].old_range[1] + changes[i].old_range[2]
                > Len(StrLines(source_content))

----------------------------------------------------------------------------
(* apply_patch run again in the directory it has left                      *)

\* the copy phase over the staged files still to copy, in one of the orders
\* the workers may take them
RECURSIVE CopyAll(_, _, _)
CopyAll(fs, staged, todo) ==
    IF todo = {} THEN fs
    ELSE LET rel_path == CHOOSE path \in todo : TRUE
         IN  CopyAll(CopyToLive(fs, rel_path, staged[rel_path]), staged, todo \ {rel_path})

\* the removal phase over the paths still to remove
RECURSIVE RemoveAll(_, _)
RemoveAll(fs, todo) ==
    IF todo = {} THEN fs
    ELSE LET path == CHOOSE path \in todo : TRUE
         IN  RemoveAll(RemoveFromLive(fs, path), todo \ {path})

\* apply_patch of the same artifact, without FileDiffs, started in fs by a
\* user who confirms: the directory it leaves
RunAgain(fs) ==
    IF patch_data.check_files # <<>> /\ ~verify_directory(patch_data.check_files, fs)
    THEN fs
    ELSE RemoveAll(CopyAll(fs, extract_dir, DOMAIN extract_dir),
                   SeqRange(patch_data.removed_files))

\* C24: when the manifest has no modified_diffs, running apply_patch a
\* second time leaves the directory as the first run left it.
ReapplicationIdempotent ==
    (pc = "Done" /\ patch_data.modified_diffs = <<>>) => RunAgain(live) = live

----------------------------------------------------------------------------
(* The manifest as a partition of the Change list                          *)

\* what a Change carries into the manifest
Carried(change) ==
    CASE change.type = "Added" -> change.file_info
      [] change.type = "Modified" -> change.file_info
      [] change.type = "ModifiedDiff" -> change.file_diff
      [] change.type = "Removed" -> change.path

\* the positions of the Changes of a type in the list
PositionsOf(type) == {i \in 1..Len(diffs) : diffs[i].type = type}

\* the list holds what the Changes of the type carry, in their order
HoldsInOrder(list, type) ==
    /\ Len(list) = Cardinality(PositionsOf(type))
    /\ \A i \in PositionsOf(type) :
          list[Cardinality({j \in PositionsOf(type) : j <= i})] = Carried(diffs[i])

\* C25: the manifest create_patch writes holds every Change of the list in
\* exactly one of added_files, modified_files, modified_diffs and
\* removed_files, by its type and in the order of the list; the four
\* lengths add up to the length of the list; modified_diffs is a member of
\* the document, a list, also when there is no ModifiedDiff; and check_files
\* is the list that was passed.
ManifestPartition ==
    gpc = "created" =>
        /\ from_slice(patch_data_file).ok
        /\ HoldsInOrder(Manifest.added_files, "Added")
        /\ HoldsInOrder(Manifest.modified_files, "Modified")
        /\ HoldsInOrder(Manifest.modified_diffs, "ModifiedDiff")
        /\ HoldsInOrder(Manifest.removed_files, "Removed")
        /\ Len(Manifest.added_files) + Len(Manifest.modified_files)
              + Len(Manifest.modified_diffs) + Len(Manifest.removed_files) = Len(diffs)
        /\ \E i \in 1..Len(patch_data_file) :
              /\ patch_data_file[i].key = "modified_diffs"
              /\ DOMAIN patch_data_file[i].value = 1..Len(patch_data_file[i].value)
        /\ Manifest.check_files = args.check_files

\* a manifest was written for a list with two Changes of one type and one
\* of another, none of them a ModifiedDiff
ManifestPartitionWitness ==
    /\ gpc = "created"
    /\ Len(diffs) = 3
    /\ \E type \in {"Added", "Modified", "Removed"} : Cardinality(PositionsOf(type)) = 2
    /\ PositionsOf("ModifiedDiff") = {}
    /\ Manifest.modified_diffs = <<>>

====
